---- MODULE Spec2Model ----
(***************************************************************************)
(* Vent diary backend: the token-based session lifecycle, and the diary    *)
(* of journal entries and their moods.                                     *)
(*                                                                         *)
(* The state is the document store (users, refresh-token ledger, entries,  *)
(* moods), the wall clock, and the HTTP requests in flight.  A handler is  *)
(* an async function: it runs from one `await` of a database operation to  *)
(* the next.  Every step below is "the code after the previous await,      *)
(* up to and including the next database operation"; the last step of a    *)
(* handler is the code after its last await, which answers the request.    *)
(* Steps of different requests interleave freely.                          *)
(*                                                                         *)
(* Time is counted in the seconds of a signed token's iat and exp; any     *)
(* number of steps can happen within one second.  Validities are scaled:   *)
(* what matters is their order (access before refresh) and the instants    *)
(* at which they run out.                                                  *)
(***************************************************************************)
EXTENDS Integers, FiniteSets, Sequences, TLC

VARIABLES now, users, nextUser, ledger, nextRow, reqs, issued, mail,
          nextReset, seedPc, refreshSecretSet, rowCap, diaryCap,
          nodeEnv, res, localStorage, calls,
          entries, moods, nextEntry, nextMood, jreqs

vars == <<now, users, nextUser, ledger, nextRow, reqs, issued, mail,
          nextReset, seedPc, refreshSecretSet, rowCap, diaryCap,
          nodeEnv, res, localStorage, calls,
          entries, moods, nextEntry, nextMood, jreqs>>

\* the accounts and their sessions
accounts == <<now, users, nextUser, ledger, nextRow, reqs, issued, mail,
              nextReset, seedPc, refreshSecretSet, rowCap, diaryCap,
              nodeEnv, res, localStorage, calls>>
\* the diary: the JournalEntry and Mood collections, the ObjectIds handed
\* out, and the diary requests in flight
journal == <<entries, moods, nextEntry, nextMood, jreqs>>

\* the deployment's configuration (which secrets and which NODE_ENV the
\* process was started with) and the budget of the run
deployment == <<refreshSecretSet, rowCap, diaryCap, nodeEnv>>
\* the browser: its localStorage and the fetchAuthenticated calls in flight
browser == <<localStorage, calls>>
\* what no route handler writes: the deployment, the responses that the
\* global error handler has written, and the browser
config == <<deployment, res, browser>>
\* the state of the password-reset flow outside the store
resets == <<mail, nextReset>>

(* ------------------------------ bounds -------------------------------- *)
MaxTime == 3
MaxUsers == 2
MaxRows == 2
MaxRaceRows == 3
MaxResets == 1
MaxEntries == 2
MaxMoods == 2
TicksPerDay == 2
DaysPerMonth == 2
MaxStatEntries == 4
MaxStatTime == 6

Reqs == {"r1", "r2"}
SeqReqs == {"r1"}
Emails == {"a@x.com", "jane.doe@example.com"}
NoVal == "<undefined>"
ShortPassword == "short"
Password == "Password123!"
OtherPassword == "Hunter2-Hunter2"
Passwords == {Password, OtherPassword}

(* ------------------- program constants (scaled) ----------------------- *)
\* JWT_ACCESS_EXPIRES_IN || '15m', in token seconds
AccessSecs == 1
\* JWT_REFRESH_EXPIRES_IN || '7d', in token seconds
RefreshSecs == 2
\* addDays(new Date(), JWT_REFRESH_EXPIRES_IN_DAYS || '7'): the same 7 days
RefreshDays == RefreshSecs
\* passwordResetExpires = Date.now() + 10 * 60 * 1000
ResetSecs == 1
\* minlength of the password path
MinPasswordLen == 8

(* ------------------------------ tokens -------------------------------- *)
NoTok == [userId |-> 0, type |-> "none", iat |-> 0, exp |-> 0, sig |-> "none"]
NoPair == [userId |-> 0, iat |-> 0]
NoRow == [id |-> 0, token |-> NoTok, user |-> 0, expiresAt |-> 0]

\* Math.floor(Date.now() / 1000)
Sec(t) == t

\* jwt.sign(payload, secret, {expiresIn}): HS256 is deterministic, so the
\* token string is a function of the payload (userId, type, iat, exp) and
\* the secret.
JwtSign(userId, type, secret, expiresIn, t) ==
    [userId |-> userId, type |-> type, iat |-> Sec(t),
     exp |-> Sec(t) + expiresIn, sig |-> secret]

\* process.env.JWT_REFRESH_SECRET || process.env.JWT_SECRET
RefreshSecret == IF refreshSecretSet THEN "JWT_REFRESH_SECRET" ELSE "JWT_SECRET"

generateTokens(userId, t) ==
    [accessToken |-> JwtSign(userId, "access", "JWT_SECRET", AccessSecs, t),
     refreshToken |-> JwtSign(userId, "refresh", RefreshSecret, RefreshSecs, t)]

\* the pair a response carried, as the two token strings
AccessOf(p) == [userId |-> p.userId, type |-> "access", iat |-> p.iat,
                exp |-> p.iat + AccessSecs, sig |-> "JWT_SECRET"]
RefreshOf(p) == [userId |-> p.userId, type |-> "refresh", iat |-> p.iat,
                 exp |-> p.iat + RefreshSecs, sig |-> RefreshSecret]
PairOf(tokens) == [userId |-> tokens.refreshToken.userId,
                   iat |-> tokens.refreshToken.iat]

\* a credential signed by somebody who does not hold the server's secret
Forged == [userId |-> 1, type |-> "access", iat |-> 0, exp |-> MaxTime + 1,
           sig |-> "forged"]

\* jwt.verify with {ignoreExpiration: true}
JwtVerifyIgnoreExpiration(token, secret, t) ==
    IF token.sig # secret THEN "JsonWebTokenError" ELSE "ok"

\* jwt.verify(token, secret): the signature first, then the expiry
\* (clockTimestamp >= exp is expired)
JwtVerify(token, secret, t) ==
    IF token.sig # secret THEN "JsonWebTokenError"
    ELSE IF Sec(t) >= token.exp THEN "TokenExpiredError"
    ELSE "ok"

\* what a client can put into a header or a body: nothing, a credential some
\* response handed out, or a forgery
Presentable == {NoTok, Forged} \cup {AccessOf(p) : p \in issued}
                               \cup {RefreshOf(p) : p \in issued}

(* ------------------------------ users --------------------------------- *)
\* the paths of userSchema that this model keeps; mongoose's strict mode
\* drops every other path on save and no stored document has one
UserSchemaPaths == {"id", "email", "password"}

\* bcrypt.hash / bcrypt.compare
BcryptHash(p) == <<"bcrypt", p>>
comparePassword(candidate, userPassword) == userPassword = BcryptHash(candidate)

\* crypto.createHash('sha256').update(t).digest('hex')
Sha256(t) == [alg |-> "sha256", of |-> t]

PasswordLen(p) == IF p = ShortPassword THEN 5 ELSE 12

\* what the store keeps of a document under the strict schema
Persisted(doc) == [p \in (DOMAIN doc) \cap UserSchemaPaths |-> doc[p]]

\* doc.save() after assignments: the assigned paths are $set on the stored
\* document, the ones assigned undefined are $unset
SetPaths(docs, id, fields) ==
    {IF u.id = id THEN Persisted(fields @@ u) ELSE u : u \in docs}
UnsetPaths(docs, id, paths) ==
    {IF u.id = id THEN [p \in (DOMAIN u) \ paths |-> u[p]] ELSE u : u \in docs}

\* crypto.randomBytes(32).toString('hex'): the n-th token drawn; -1 is a
\* string nobody drew
BogusResetToken == -1
ResetPaths == {"passwordResetToken", "passwordResetExpires"}

UserIds == {u.id : u \in users}
UserById(id) == CHOOSE u \in users : u.id = id
UsersByEmail(e) == {u \in users : u.email = e}
\* User.findOne({email}) / User.findById(id): the _id found, 0 for null
FindUserByEmail(e) == IF UsersByEmail(e) = {} THEN 0
                      ELSE (CHOOSE u \in UsersByEmail(e) : TRUE).id
FindUserById(id) == IF id \in UserIds THEN id ELSE 0

(* ------------------------------ ledger -------------------------------- *)
RowsByToken(tok) == {row \in ledger : row.token = tok}
\* RefreshToken.findOne({token})
FindRow(tok) == IF RowsByToken(tok) = {} THEN NoRow
                ELSE CHOOSE row \in RowsByToken(tok) : TRUE
\* a delete that removes nothing
DeleteNothing(rows, id) == rows
\* a deleteOne whose filter is the owner named in the token, not the string
DeleteRowsOfTokenOwner(rows, tok) == {row \in rows : row.user # tok.userId}
\* RefreshToken.findByIdAndDelete(_id)
DeleteRowById(rows, id) == {row \in rows : row.id # id}
\* RefreshToken.deleteOne({token})
DeleteRowByToken(rows, tok) == {row \in rows : row.token # tok}
\* RefreshToken.deleteMany({user})
DeleteRowsOfUser(rows, uid) == {row \in rows : row.user # uid}
\* the unique index on token: an insert of a present token string is refused
TokenTaken(rows, tok) == \E row \in rows : row.token = tok
NewRow(tok, uid, t) == [id |-> nextRow, token |-> tok, user |-> uid,
                        expiresAt |-> t + RefreshDays]

(* ------------------------------ the diary ----------------------------- *)
\* null: no ObjectId and no Date (the ObjectIds and the instants of the
\* diary are positive)
Null == 0
\* JSON null in a request body
JsNull == "<null>"
\* a JavaScript value that an `if` takes for true
Truthy(v) == v \notin {NoVal, JsNull, ""}
Has(body, path) == path \in DOMAIN body
Field(body, path) == IF Has(body, path) THEN body[path] ELSE NoVal

categoryEnum == {"FAMILY", "RELATIONSHIP", "MYSELF", "WORK", "OTHER"}
\* String.prototype.toUpperCase on the categories that requests carry
ToUpperCase(s) ==
    CASE s = "work" -> "WORK"
      [] s = "diary" -> "DIARY"
      [] OTHER -> s

\* rows of the moodtypes collection, two of those that the seed script inserts
moodTypes == {"happy", "calm"}

\* min, max and default of the intensity path of a Mood
MinIntensity == 1
MaxIntensity == 5
DefaultIntensity == 3

NoEntry == [id |-> 0, title |-> "", content |-> "", category |-> "",
            user |-> 0, mood |-> Null, deletedAt |-> Null, createdAt |-> 0]

\* the validators of entrySchema that a request can fail: the required
\* title and content, the enum of category
ValidEntry(e) ==
    /\ e.title # "" /\ e.content # ""
    /\ e.category \in categoryEnum
\* the validators of moodSchema that a request can fail: min and max of
\* intensity
ValidIntensity(i) == i >= MinIntensity /\ i <= MaxIntensity

DocById(docs, id) == {d \in docs : d.id = id}
\* updateOne({_id: id}, {$set: fields}), which is what save() sends for the
\* modified paths of a document
SetFields(docs, id, fields) ==
    {IF d.id = id
        THEN [p \in DOMAIN d |-> IF p \in DOMAIN fields THEN fields[p] ELSE d[p]]
        ELSE d : d \in docs}
\* deleteOne({_id: id})
DeleteById(docs, id) == docs \ DocById(docs, id)

\* The filter that a handler hands to JournalEntry.find / findOne /
\* countDocuments: the caller, and what it copied from the query string.
\* A condition on a path that no document has (strictQuery is off, so
\* {withDeleted: ''} reaches the store as it is) matches no document.
MatchesFilter(e, filter) ==
    /\ Has(filter, "user") => e.user = filter.user
    /\ Has(filter, "_id") => e.id = filter._id
    /\ Has(filter, "withDeleted") => FALSE
\* a model without the query middleware
PreFindNothing(docs, options) == docs
\* entrySchema.pre(/^find/): unless the query's options say withDeleted,
\* the condition {deletedAt: null} is added
PreFind(docs, options) ==
    IF Has(options, "withDeleted") /\ options.withDeleted = TRUE
        THEN docs
        ELSE {e \in docs : e.deletedAt = Null}
\* JournalEntry.find(filter) and findOne(filter), with the query middleware
Find(docs, filter, options) ==
    {e \in PreFind(docs, options) : MatchesFilter(e, filter)}
\* JournalEntry.countDocuments(filter), which is no find: no middleware
CountDocuments(docs, filter) ==
    Cardinality({e \in docs : MatchesFilter(e, filter)})
\* the populate of the second pre(/^find/): the mood path of a found entry
\* holds the Mood document, or null when the store has none with that id
Populated(e, moodDocs) ==
    IF DocById(moodDocs, e.mood) = {} THEN [e EXCEPT !.mood = Null] ELSE e
FindOne(docs, moodDocs, filter, options) ==
    IF Find(docs, filter, options) = {}
        THEN NoEntry
        ELSE Populated(CHOOSE e \in Find(docs, filter, options) : TRUE, moodDocs)

\* A session's transaction.  Its reads see the store as it was at its first
\* operation, and its own writes (viewE, viewM); the commit applies the
\* writes.
NoTxn == [state |-> "none", snapE |-> {}, snapM |-> {}, viewE |-> {}, viewM |-> {}]
\* the ids of the documents a transaction has inserted, updated or deleted
Touched(view, snap) == {d.id : d \in (view \ snap) \cup (snap \ view)}
Apply(store, view, snap) == (store \ (snap \ view)) \cup (view \ snap)

JIdle == [op |-> "idle", pc |-> "idle", caller |-> 0, id |-> 0,
          body |-> <<>>, query |-> <<>>,
          doc |-> NoEntry, mood |-> Null, dirty |-> {}, txn |-> NoTxn,
          found |-> {}, total |-> 0, data |-> <<>>,
          out |-> "pending", status |-> 0, msg |-> ""]
JAnswered(q) == [JIdle EXCEPT !.op = q.op, !.pc = "done", !.caller = q.caller,
                              !.id = q.id]
\* next(new AppError(msg, statusCode)) or next(err)
JFail(q, statusCode, msg) ==
    [JAnswered(q) EXCEPT !.out = "error", !.status = statusCode, !.msg = msg]
JSet(r, q) == jreqs' = [jreqs EXCEPT ![r] = q]

(* ----------------------------- requests ------------------------------- *)
Idle == [op |-> "idle", pc |-> "idle", tok |-> NoTok, rt |-> NoTok,
         email |-> NoVal, pw |-> NoVal, pw2 |-> NoVal, cur |-> NoVal,
         raw |-> 0, user |-> 0, doc |-> 0, ok |-> FALSE, rec |-> NoRow,
         pair |-> NoPair,
         out |-> "pending", status |-> 0, msg |-> ""]

\* A request record keeps the locals that the rest of its handler still
\* reads; a step drops the ones that are dead after it.  An answered request
\* keeps the credential it presented in its header and the pair it was sent.
Answered(q) == [Idle EXCEPT !.op = q.op, !.pc = "done", !.tok = q.tok,
                            !.pair = q.pair]

\* next(new AppError(msg, statusCode)), or next(err) of a thrown error, whose
\* status the error handler defaults to 500 (err.statusCode || 500): the
\* handler is over and the error is with the global error handler, which has
\* no other status to answer it with
Fail(q, statusCode, msg) ==
    [Answered(q) EXCEPT !.out = "error", !.status = statusCode, !.msg = msg]
\* res.status(statusCode).json({status: 'success', ...})
Reply(q, statusCode, msg) ==
    [Answered(q) EXCEPT !.out = "json", !.status = statusCode, !.msg = msg]

Set(r, q) == reqs' = [reqs EXCEPT ![r] = q]

(* --------------------- outside the route handlers --------------------- *)
\* what the global error handler has written to the response of a request
NoResponse == [sent |-> 0, statusCode |-> 0]
\* localStorage after clearAuthData(): getItem gives null for either token
NoAuthData == [accessToken |-> NoTok, refreshToken |-> NoTok]
\* a call of fetchAuthenticated that has not been made: the token of its
\* Authorization header, the refresh token that its handleTokenRefresh read
\* (and, as an observation of the run, whether the ledger held that token
\* when it was read), the pair that its refresh was answered with, and how
\* it ended
CallIdle == [pc |-> "idle", tok |-> NoTok, rt |-> NoTok, live |-> FALSE,
             isRetry |-> FALSE, pair |-> NoPair, out |-> "pending"]
\* the process of `npm start` (NODE_ENV=production) with no error answered,
\* and a browser that holds no session and makes no call
Outside ==
    /\ nodeEnv = "production"
    /\ res = [r \in Reqs |-> NoResponse]
    /\ localStorage = NoAuthData
    /\ calls = [c \in Reqs |-> CallIdle]

Init ==
    /\ now = 0
    /\ users = {}
    /\ nextUser = 1
    /\ ledger = {}
    /\ nextRow = 1
    /\ reqs = [r \in Reqs |-> Idle]
    /\ issued = {}
    /\ mail = {}
    /\ nextReset = 1
    /\ seedPc = "idle"
    /\ refreshSecretSet \in BOOLEAN
    /\ rowCap = MaxRows
    /\ diaryCap = [entries |-> MaxEntries, moods |-> MaxMoods]
    /\ Outside
    /\ entries = {}
    /\ moods = {}
    /\ nextEntry = 1
    /\ nextMood = 1
    /\ jreqs = [r \in Reqs |-> JIdle]


(* ------------------------- clock and store ---------------------------- *)
Tick ==
    /\ now < MaxTime
    /\ now' = now + 1
    /\ UNCHANGED <<users, nextUser, ledger, nextRow, reqs, issued, resets,
                   seedPc, config, journal>>

\* the TTL index {expiresAt: 1} with expireAfterSeconds 0: the store removes
\* the rows whose expiresAt has been reached, at a time of its choosing
ExpiredRows(rows, t) == {row \in rows : row.expiresAt <= t}
TTLExpire ==
    /\ ExpiredRows(ledger, now) # {}
    /\ ledger' = ledger \ ExpiredRows(ledger, now)
    /\ UNCHANGED <<now, users, nextUser, nextRow, reqs, issued, resets,
                   seedPc, config, journal>>

\* seed.js --delete: User.deleteMany(), ..., RefreshToken.deleteMany(), each
\* awaited on its own
SeedDeleteUsers ==
    /\ seedPc = "idle"
    /\ users # {}
    /\ users' = {}
    /\ seedPc' = "users_deleted"
    /\ UNCHANGED <<now, nextUser, ledger, nextRow, reqs, issued, resets,
                   config, journal>>
SeedDeleteTokens ==
    /\ seedPc = "users_deleted"
    /\ ledger' = {}
    /\ seedPc' = "idle"
    /\ UNCHANGED <<now, users, nextUser, nextRow, reqs, issued, resets,
                   config, journal>>

(* ------------------------ sendTokenResponse --------------------------- *)
\* generateTokens, then RefreshToken.create: the request waits for the insert
SendTokenInsert(r, q, uid) ==
    LET tokens == generateTokens(uid, now) IN
    IF TokenTaken(ledger, tokens.refreshToken)
    THEN /\ Set(r, Fail(q, 500, "E11000 duplicate key"))
         /\ UNCHANGED <<ledger, nextRow>>
    ELSE /\ nextRow <= rowCap
         /\ ledger' = ledger \cup {NewRow(tokens.refreshToken, uid, now)}
         /\ nextRow' = nextRow + 1
         /\ Set(r, [Idle EXCEPT !.op = q.op, !.pc = "tok_saved", !.user = uid,
                                !.pair = PairOf(tokens)])

\* after the insert: res.status(statusCode).json({accessToken, refreshToken})
SendTokenReply(r) ==
    /\ reqs[r].pc = "tok_saved"
    /\ Set(r, Reply(reqs[r], IF reqs[r].op = "register" THEN 201 ELSE 200,
                    "tokens"))
    /\ issued' = issued \cup {reqs[r].pair}
    /\ UNCHANGED <<now, users, nextUser, ledger, nextRow, resets, seedPc,
                   config, journal>>

(* ----------------------------- register ------------------------------- *)
RegisterStart(r, name, email, pw, pw2) ==
    /\ reqs[r].pc = "idle"
    /\ LET q == [Idle EXCEPT !.op = "register", !.email = email, !.pw = pw,
                             !.pw2 = pw2] IN
       IF name = NoVal \/ email = NoVal \/ pw = NoVal \/ pw2 = NoVal
       THEN Set(r, Fail(q, 400, "Please provide name, email, password, and password confirmation"))
       ELSE IF pw # pw2
       THEN Set(r, Fail(q, 400, "Passwords do not match"))
       ELSE Set(r, [q EXCEPT !.pc = "rg_found", !.pw2 = NoVal,
                             !.user = FindUserByEmail(email)])
    /\ UNCHANGED <<now, users, nextUser, ledger, nextRow, issued, resets,
                   seedPc, config, journal>>

\* existingUser check, then User.create (schema validation, unique email)
RegisterCreate(r) ==
    /\ reqs[r].pc = "rg_found"
    /\ LET q == reqs[r] IN
       IF q.user # 0
       THEN /\ Set(r, Fail(q, 400, "Email is already in use"))
            /\ UNCHANGED <<users, nextUser>>
       ELSE IF PasswordLen(q.pw) < MinPasswordLen
       THEN /\ Set(r, Fail(q, 500, "ValidationError"))
            /\ UNCHANGED <<users, nextUser>>
       ELSE IF UsersByEmail(q.email) # {}
       THEN /\ Set(r, Fail(q, 500, "E11000 duplicate key"))
            /\ UNCHANGED <<users, nextUser>>
       ELSE /\ nextUser <= MaxUsers
            /\ users' = users \cup {Persisted([id |-> nextUser, email |-> q.email,
                                               password |-> BcryptHash(q.pw)])}
            /\ nextUser' = nextUser + 1
            /\ Set(r, [Idle EXCEPT !.op = q.op, !.pc = "rg_created",
                                   !.user = nextUser])
    /\ UNCHANGED <<now, ledger, nextRow, issued, resets, seedPc, config, journal>>

RegisterSendToken(r) ==
    /\ reqs[r].pc = "rg_created"
    /\ SendTokenInsert(r, reqs[r], reqs[r].user)
    /\ UNCHANGED <<now, users, nextUser, issued, resets, seedPc, config, journal>>

(* ------------------------------- login -------------------------------- *)
LoginStart(r, email, pw) ==
    /\ reqs[r].pc = "idle"
    /\ LET q == [Idle EXCEPT !.op = "login", !.email = email, !.pw = pw]
           uid == FindUserByEmail(email) IN
       IF email = NoVal \/ pw = NoVal
       THEN Set(r, Fail(q, 400, "Please provide email and password!"))
       ELSE Set(r, [Idle EXCEPT !.op = "login", !.pc = "lg_found", !.user = uid,
                      !.ok = (uid # 0 /\ comparePassword(pw, UserById(uid).password))])
    /\ UNCHANGED <<now, users, nextUser, ledger, nextRow, issued, resets,
                   seedPc, config, journal>>

LoginSendToken(r) ==
    /\ reqs[r].pc = "lg_found"
    /\ LET q == reqs[r] IN
       IF q.user = 0 \/ ~q.ok
       THEN /\ Set(r, Fail(q, 401, "Incorrect email or password"))
            /\ UNCHANGED <<ledger, nextRow>>
       ELSE SendTokenInsert(r, q, q.user)
    /\ UNCHANGED <<now, users, nextUser, issued, resets, seedPc, config, journal>>

(* ------------------------------ refresh ------------------------------- *)
\* req.body.refreshToken, then RefreshToken.findOne({token})
RefreshStart(r, rt) ==
    /\ reqs[r].pc = "idle"
    /\ LET q == [Idle EXCEPT !.op = "refresh", !.rt = rt] IN
       IF rt = NoTok
       THEN Set(r, Fail(q, 400, "Refresh token is required"))
       ELSE Set(r, [q EXCEPT !.pc = "rf_found", !.rec = FindRow(rt)])
    /\ UNCHANGED <<now, users, nextUser, ledger, nextRow, issued, resets,
                   seedPc, config, journal>>

\* tokenRecord.expiresAt < new Date()
RowExpired(row, t) == row.expiresAt < t

\* the check of the record: a missing one is refused at once, an expired one
\* is deleted first; otherwise User.findById(tokenRecord.user)
RefreshCheck(r) ==
    /\ reqs[r].pc = "rf_found"
    /\ LET q == reqs[r] IN
       IF q.rec = NoRow
       THEN /\ Set(r, Fail(q, 401, "Invalid or expired refresh token"))
            /\ UNCHANGED ledger
       ELSE IF RowExpired(q.rec, now)
       THEN /\ ledger' = DeleteRowById(ledger, q.rec.id)
            /\ Set(r, [q EXCEPT !.pc = "rf_expired", !.rt = NoTok])
       ELSE /\ Set(r, [q EXCEPT !.pc = "rf_user", !.rt = NoTok,
                                 !.user = FindUserById(q.rec.user)])
            /\ UNCHANGED ledger
    /\ UNCHANGED <<now, users, nextUser, nextRow, issued, resets, seedPc,
                   config, journal>>

\* the user check; generateTokens; RefreshToken.findByIdAndDelete(old)
RefreshRotate(r) ==
    /\ reqs[r].pc = "rf_user"
    /\ LET q == reqs[r] IN
       /\ ledger' = DeleteRowById(ledger, q.rec.id)
       /\ IF q.user = 0
          THEN Set(r, [q EXCEPT !.pc = "rf_gone"])
          ELSE Set(r, [q EXCEPT !.pc = "rf_deleted",
                                !.pair = PairOf(generateTokens(q.user, now))])
    /\ UNCHANGED <<now, users, nextUser, nextRow, issued, resets, seedPc,
                   config, journal>>

\* after the awaited findByIdAndDelete: the 401 when the record was expired
\* or its user gone, else RefreshToken.create({token: newRefreshToken, ...})
RefreshAfterDelete(r) ==
    /\ reqs[r].pc \in {"rf_expired", "rf_gone", "rf_deleted"}
    /\ LET q == reqs[r] IN
       IF q.pc = "rf_expired"
       THEN /\ Set(r, Fail(q, 401, "Invalid or expired refresh token"))
            /\ UNCHANGED <<ledger, nextRow>>
       ELSE IF q.pc = "rf_gone"
       THEN /\ Set(r, Fail(q, 401, "User belonging to this token no longer exists"))
            /\ UNCHANGED <<ledger, nextRow>>
       ELSE IF TokenTaken(ledger, RefreshOf(q.pair))
       THEN /\ Set(r, Fail(q, 500, "E11000 duplicate key"))
            /\ UNCHANGED <<ledger, nextRow>>
       ELSE /\ nextRow <= rowCap
            /\ ledger' = ledger \cup {NewRow(RefreshOf(q.pair), q.user, now)}
            /\ nextRow' = nextRow + 1
            /\ Set(r, [q EXCEPT !.pc = "rf_saved"])
    /\ UNCHANGED <<now, users, nextUser, issued, resets, seedPc, config, journal>>

\* res.status(200).json({accessToken, refreshToken})
RefreshReply(r) ==
    /\ reqs[r].pc = "rf_saved"
    /\ Set(r, Reply(reqs[r], 200, "tokens"))
    /\ issued' = issued \cup {reqs[r].pair}
    /\ UNCHANGED <<now, users, nextUser, ledger, nextRow, resets, seedPc,
                   config, journal>>

(* ------------------------------ protect ------------------------------- *)
\* jwt.decode in the place of jwt.verify: the signature is not checked
protectDecodeOnly(tok, t) ==
    IF tok = NoTok
    THEN "You are not logged in! Please log in to get access."
    ELSE IF Sec(t) >= tok.exp
    THEN "Your token has expired! Please log in again."
    ELSE IF tok.type # "access"
    THEN "Invalid token type provided."
    ELSE "ok"

\* protect without the check of decoded.type
protectAnyType(tok, t) ==
    IF tok = NoTok
    THEN "You are not logged in! Please log in to get access."
    ELSE IF JwtVerify(tok, "JWT_SECRET", t) = "JsonWebTokenError"
    THEN "Invalid token. Please log in again."
    ELSE IF JwtVerify(tok, "JWT_SECRET", t) = "TokenExpiredError"
    THEN "Your token has expired! Please log in again."
    ELSE "ok"

\* the checks of protect before it looks the user up: "ok" or the message of
\* the 401 it hands to next()
protect(tok, t) ==
    IF tok = NoTok
    THEN "You are not logged in! Please log in to get access."
    ELSE IF JwtVerify(tok, "JWT_SECRET", t) = "JsonWebTokenError"
    THEN "Invalid token. Please log in again."
    ELSE IF JwtVerify(tok, "JWT_SECRET", t) = "TokenExpiredError"
    THEN "Your token has expired! Please log in again."
    ELSE IF tok.type # "access"
    THEN "Invalid token type provided."
    ELSE "ok"

\* a request to a protected route arrives: the checks, then
\* User.findById(decoded.userId)
ProtectStart(r, op, tok, rt, cur, pw, pw2) ==
    /\ reqs[r].pc = "idle"
    /\ LET q == [Idle EXCEPT !.op = op, !.tok = tok, !.rt = rt, !.cur = cur,
                             !.pw = pw, !.pw2 = pw2] IN
       IF protect(tok, now) # "ok"
       THEN Set(r, Fail(q, 401, protect(tok, now)))
       ELSE Set(r, [q EXCEPT !.pc = "protect", !.user = FindUserById(tok.userId)])
    /\ UNCHANGED <<now, users, nextUser, ledger, nextRow, issued, resets,
                   seedPc, config, journal>>

\* exports.me, run by next(): no await
Me(r, q) ==
    /\ Set(r, Reply(q, 200, "user"))
    /\ UNCHANGED <<ledger>>

\* exports.logout, run by next(), up to its await:
\* if (refreshToken) await RefreshToken.deleteOne({token: refreshToken})
Logout(r, q) ==
    IF q.rt # NoTok
    THEN /\ ledger' = DeleteRowByToken(ledger, q.rt)
         /\ Set(r, [Idle EXCEPT !.op = q.op, !.pc = "lo_deleted",
                                !.rt = q.rt])
    ELSE /\ Set(r, Reply(q, 200, "Logout successful"))
         /\ UNCHANGED ledger

\* exports.changePassword, run by next(), up to its first await:
\* User.findById(req.user.id).select('+password')
ChangePassword(r, q) ==
    /\ LET doc == FindUserById(q.user) IN
       Set(r, [q EXCEPT !.pc = "cp_found", !.tok = NoTok, !.doc = doc,
                 !.ok = (doc # 0 /\ comparePassword(q.cur, UserById(doc).password))])
    /\ UNCHANGED ledger

\* protect after User.findById: the user is gone, or req.user = currentUser
\* and next() runs the handler of the route
ProtectNext(r) ==
    /\ reqs[r].pc = "protect"
    /\ LET q == reqs[r] IN
       IF q.user = 0
       THEN /\ Set(r, Fail(q, 401, "The user belonging to this token does no longer exist."))
            /\ UNCHANGED ledger
       ELSE IF q.op = "me" THEN Me(r, q)
       ELSE IF q.op = "logout" THEN Logout(r, q)
       ELSE ChangePassword(r, q)
    /\ UNCHANGED <<now, users, nextUser, nextRow, issued, resets, seedPc, config, journal>>

LogoutReply(r) ==
    /\ reqs[r].pc = "lo_deleted"
    /\ Set(r, Reply(reqs[r], 200, "Logout successful"))
    /\ UNCHANGED <<now, users, nextUser, ledger, nextRow, issued, resets,
                   seedPc, config, journal>>

(* --------------------------- changePassword --------------------------- *)
\* user.password = newPassword; user.save(): the pre-save hook hashes it; a
\* save of a document that is gone throws
SavePassword(docs, id, pw) ==
    {IF u.id = id THEN Persisted([u EXCEPT !.password = BcryptHash(pw)]) ELSE u :
        u \in docs}

\* a changePassword that revokes the user's sessions with the save
ChangePasswordSaveRevoking(r) ==
    /\ reqs[r].pc = "cp_found"
    /\ LET q == reqs[r] IN
       IF q.cur = NoVal \/ q.doc = 0 \/ ~q.ok \/ q.pw = NoVal \/ q.pw # q.pw2
          \/ PasswordLen(q.pw) < MinPasswordLen \/ q.doc \notin UserIds
       THEN /\ Set(r, Fail(q, 400, "refused"))
            /\ UNCHANGED <<users, ledger>>
       ELSE /\ users' = {IF u.id = q.doc
                         THEN [u EXCEPT !.password = BcryptHash(q.pw)] ELSE u :
                         u \in users}
            /\ ledger' = DeleteRowsOfUser(ledger, q.doc)
            /\ Set(r, [Idle EXCEPT !.op = q.op, !.pc = "cp_saved",
                                   !.user = q.user])
    /\ UNCHANGED <<now, nextUser, nextRow, issued, resets, seedPc, config, journal>>

\* the checks of the body, then the save.  Nothing here touches the ledger.
ChangePasswordSave(r) ==
    /\ reqs[r].pc = "cp_found"
    /\ LET q == reqs[r] IN
       IF q.cur = NoVal
       THEN /\ Set(r, Fail(q, 401, "Your current password is incorrect"))
            /\ UNCHANGED users
       ELSE IF q.doc = 0
       THEN /\ Set(r, Fail(q, 500, "TypeError"))
            /\ UNCHANGED users
       ELSE IF ~q.ok
       THEN /\ Set(r, Fail(q, 401, "Your current password is incorrect"))
            /\ UNCHANGED users
       ELSE IF q.pw = NoVal \/ q.pw2 = NoVal \/ q.pw # q.pw2
       THEN /\ Set(r, Fail(q, 400, "New password and confirmation do not match"))
            /\ UNCHANGED users
       ELSE IF PasswordLen(q.pw) < MinPasswordLen
       THEN /\ Set(r, Fail(q, 400, "Password must be at least 8 characters long"))
            /\ UNCHANGED users
       ELSE IF q.doc \notin UserIds
       THEN /\ Set(r, Fail(q, 500, "DocumentNotFoundError"))
            /\ UNCHANGED users
       ELSE /\ users' = SavePassword(users, q.doc, q.pw)
            /\ Set(r, [Idle EXCEPT !.op = q.op, !.pc = "cp_saved",
                                   !.user = q.user])
    /\ UNCHANGED <<now, nextUser, ledger, nextRow, issued, resets, seedPc,
                   config, journal>>

ChangePasswordReply(r) ==
    /\ reqs[r].pc = "cp_saved"
    /\ Set(r, Reply(reqs[r], 200, "Password changed successfully."))
    /\ UNCHANGED <<now, users, nextUser, ledger, nextRow, issued, resets,
                   seedPc, config, journal>>

\* the bodies a client sends to change-password: {newPassword, confirmPassword}
NewPasswordBodies == {<<NoVal, NoVal>>, <<OtherPassword, OtherPassword>>,
                      <<OtherPassword, Password>>,
                      <<ShortPassword, ShortPassword>>}

(* --------------------------- forgotPassword --------------------------- *)
ForgotStart(r, email) ==
    /\ reqs[r].pc = "idle"
    /\ Set(r, [Idle EXCEPT !.op = "forgotPassword", !.pc = "fp_found",
                           !.user = FindUserByEmail(email)])
    /\ UNCHANGED <<now, users, nextUser, ledger, nextRow, issued, resets,
                   seedPc, config, journal>>

\* no user: the generic answer.  Otherwise the token is drawn, its hash and
\* expiry are assigned to the document and the document is saved.
ForgotSave(r) ==
    /\ reqs[r].pc = "fp_found"
    /\ LET q == reqs[r] IN
       IF q.user = 0
       THEN /\ Set(r, Reply(q, 200, "If the email exists, a password reset token has been sent."))
            /\ UNCHANGED <<users, nextReset>>
       ELSE /\ nextReset <= MaxResets
            /\ nextReset' = nextReset + 1
            /\ users' = SetPaths(users, q.user,
                            [passwordResetToken |-> Sha256(nextReset),
                             passwordResetExpires |-> now + ResetSecs])
            /\ Set(r, [q EXCEPT !.pc = "fp_saved", !.raw = nextReset,
                                !.doc = now + ResetSecs])
    /\ UNCHANGED <<now, nextUser, ledger, nextRow, issued, mail, seedPc, config, journal>>

\* sendEmail({to: user.email, ...}): the transport delivers or throws
ForgotMail(r, delivered) ==
    /\ reqs[r].pc = "fp_saved"
    /\ LET q == reqs[r] IN
       IF delivered
       THEN /\ mail' = mail \cup {[to |-> q.user, raw |-> q.raw, expires |-> q.doc]}
            /\ Set(r, [q EXCEPT !.pc = "fp_mailed"])
       ELSE /\ Set(r, [q EXCEPT !.pc = "fp_mailfail"])
            /\ UNCHANGED mail
    /\ UNCHANGED <<now, users, nextUser, ledger, nextRow, issued, nextReset,
                   seedPc, config, journal>>

ForgotReply(r) ==
    /\ reqs[r].pc = "fp_mailed"
    /\ Set(r, Reply(reqs[r], 200, "Token sent to email!"))
    /\ UNCHANGED <<now, users, nextUser, ledger, nextRow, issued, resets,
                   seedPc, config, journal>>

\* catch (err): the two paths are assigned undefined and the document saved
ForgotRollback(r) ==
    /\ reqs[r].pc = "fp_mailfail"
    /\ users' = UnsetPaths(users, reqs[r].user, ResetPaths)
    /\ Set(r, [reqs[r] EXCEPT !.pc = "fp_rolled"])
    /\ UNCHANGED <<now, nextUser, ledger, nextRow, issued, resets, seedPc, config, journal>>

\* a catch block that swallows the transport's error
ForgotFailSilently(r) ==
    /\ reqs[r].pc = "fp_rolled"
    /\ Set(r, Reply(reqs[r], 200, "Token sent to email!"))
    /\ UNCHANGED <<now, users, nextUser, ledger, nextRow, issued, resets,
                   seedPc, config, journal>>

ForgotFail(r) ==
    /\ reqs[r].pc = "fp_rolled"
    /\ Set(r, Fail(reqs[r], 500, "There was an error sending the email. Try again later!"))
    /\ UNCHANGED <<now, users, nextUser, ledger, nextRow, issued, resets,
                   seedPc, config, journal>>

(* --------------------------- resetPassword ---------------------------- *)
\* User.findOne({passwordResetToken: hashedToken,
\*               passwordResetExpires: {$gt: Date.now()}}): a document without
\* a path matches no value of it
MatchesResetToken(u, hashedToken, t) ==
    /\ "passwordResetToken" \in DOMAIN u
    /\ u.passwordResetToken = hashedToken
    /\ "passwordResetExpires" \in DOMAIN u
    /\ u.passwordResetExpires > t
FindUserByResetToken(token, t) ==
    LET found == {u \in users : MatchesResetToken(u, Sha256(token), t)} IN
    IF found = {} THEN 0 ELSE (CHOOSE u \in found : TRUE).id

ResetStart(r, token, pw, pw2) ==
    /\ reqs[r].pc = "idle"
    /\ Set(r, [Idle EXCEPT !.op = "resetPassword", !.pc = "rs_found",
                           !.raw = token, !.pw = pw, !.pw2 = pw2,
                           !.user = FindUserByResetToken(token, now)])
    /\ UNCHANGED <<now, users, nextUser, ledger, nextRow, issued, resets,
                   seedPc, config, journal>>

\* the rest of resetPassword, from one await to the next: the checks and
\* user.save(); RefreshToken.deleteMany({user}); sendTokenResponse
ResetStep(r) ==
    /\ reqs[r].pc \in {"rs_found", "rs_saved", "rs_revoked"}
    /\ LET q == reqs[r] IN
       IF q.pc = "rs_found"
       THEN /\ UNCHANGED <<ledger, nextRow>>
            /\ IF q.user = 0
               THEN /\ Set(r, Fail(q, 400, "Token is invalid or has expired"))
                    /\ UNCHANGED users
               ELSE IF q.pw = NoVal \/ q.pw2 = NoVal
               THEN /\ Set(r, Fail(q, 400, "Please provide password and password confirmation"))
                    /\ UNCHANGED users
               ELSE IF q.pw # q.pw2
               THEN /\ Set(r, Fail(q, 400, "Passwords do not match"))
                    /\ UNCHANGED users
               ELSE IF PasswordLen(q.pw) < MinPasswordLen
               THEN /\ Set(r, Fail(q, 500, "ValidationError"))
                    /\ UNCHANGED users
               ELSE IF q.user \notin UserIds
               THEN /\ Set(r, Fail(q, 500, "DocumentNotFoundError"))
                    /\ UNCHANGED users
               ELSE /\ users' = UnsetPaths(SavePassword(users, q.user, q.pw),
                                          q.user, ResetPaths)
                    /\ Set(r, [Idle EXCEPT !.op = q.op, !.pc = "rs_saved",
                                           !.raw = q.raw, !.user = q.user])
       ELSE IF q.pc = "rs_saved"
       THEN /\ ledger' = DeleteRowsOfUser(ledger, q.user)
            /\ Set(r, [q EXCEPT !.pc = "rs_revoked"])
            /\ UNCHANGED <<users, nextRow>>
       ELSE /\ SendTokenInsert(r, q, q.user)
            /\ UNCHANGED users
    /\ UNCHANGED <<now, nextUser, issued, resets, seedPc, config, journal>>

\* the reset tokens a client can present: one that was drawn, or a string
\* that never was
ResetPresentable == {BogusResetToken} \cup (1 .. (nextReset - 1))

(* ---------------------------- the answer ------------------------------ *)
\* the request is over: the slot takes the next request
Finish(r) ==
    /\ reqs[r].pc = "done"
    /\ Set(r, Idle)
    /\ UNCHANGED <<now, users, nextUser, ledger, nextRow, issued, resets,
                   seedPc, config, journal>>

Register(r) ==
    \/ \E name \in {NoVal, "Jane Doe"}, email \in Emails \cup {NoVal},
          pw \in {Password, ShortPassword, NoVal},
          pw2 \in {Password, ShortPassword, NoVal} :
          RegisterStart(r, name, email, pw, pw2)
    \/ RegisterCreate(r)
    \/ RegisterSendToken(r)

Login(r) ==
    \/ \E email \in Emails \cup {NoVal}, pw \in Passwords \cup {NoVal} :
          LoginStart(r, email, pw)
    \/ LoginSendToken(r)

Refresh(r) ==
    \/ \E rt \in Presentable : RefreshStart(r, rt)
    \/ RefreshCheck(r)
    \/ RefreshRotate(r)
    \/ RefreshAfterDelete(r)
    \/ RefreshReply(r)

GetMe(r) ==
    \E tok \in Presentable : ProtectStart(r, "me", tok, NoTok, NoVal, NoVal, NoVal)

PostLogout(r) ==
    \/ \E tok \in Presentable, rt \in Presentable :
          ProtectStart(r, "logout", tok, rt, NoVal, NoVal, NoVal)
    \/ LogoutReply(r)

PatchChangePassword(r) ==
    \/ \E tok \in Presentable, cur \in Passwords \cup {NoVal}, b \in NewPasswordBodies :
          ProtectStart(r, "changePassword", tok, NoTok, cur, b[1], b[2])
    \/ ChangePasswordSave(r)
    \/ ChangePasswordReply(r)

ForgotPassword(r) ==
    \/ \E email \in Emails : ForgotStart(r, email)
    \/ ForgotSave(r)
    \/ \E delivered \in BOOLEAN : ForgotMail(r, delivered)
    \/ ForgotReply(r)
    \/ ForgotRollback(r)
    \/ ForgotFail(r)

ResetPassword(r) ==
    \/ \E token \in ResetPresentable, b \in NewPasswordBodies :
          ResetStart(r, token, b[1], b[2])
    \/ ResetStep(r)

Environment == Tick \/ TTLExpire \/ SeedDeleteUsers \/ SeedDeleteTokens

\* The session lifecycle, one request at a time, while the clock, the TTL
\* monitor and the seed script run.
Next ==
    \/ Environment
    \/ \E r \in SeqReqs :
          \/ Register(r) \/ Login(r) \/ Refresh(r) \/ SendTokenReply(r)
          \/ GetMe(r) \/ PostLogout(r) \/ PatchChangePassword(r)
          \/ ProtectNext(r) \/ Finish(r)
Spec == Init /\ [][Next]_vars

\* The password-reset flow, one request at a time.
NextReset ==
    \/ Environment
    \/ \E r \in SeqReqs :
          \/ Register(r) \/ Login(r) \/ Refresh(r) \/ SendTokenReply(r)
          \/ ForgotPassword(r) \/ ResetPassword(r) \/ Finish(r)
SpecReset == Init /\ [][NextReset]_vars

\* Requests in flight together, on a store that holds the demo user of
\* seed.js --import and the session of one login of theirs, a second ago.
DemoUser == Persisted([id |-> 1, email |-> "jane.doe@example.com",
                       password |-> BcryptHash(Password)])
InitRace ==
    /\ refreshSecretSet = FALSE
    /\ rowCap = MaxRaceRows
    /\ diaryCap = [entries |-> MaxEntries, moods |-> MaxMoods]
    /\ Outside
    /\ now = MaxTime - 1
    /\ users = {DemoUser}
    /\ nextUser = 2
    /\ ledger = {[id |-> 1, token |-> generateTokens(1, now - 1).refreshToken,
                  user |-> 1, expiresAt |-> now - 1 + RefreshDays]}
    /\ nextRow = 2
    /\ reqs = [r \in Reqs |-> Idle]
    /\ issued = {PairOf(generateTokens(1, now - 1))}
    /\ mail = {}
    /\ nextReset = 1
    /\ seedPc = "idle"
    /\ entries = {}
    /\ moods = {}
    /\ nextEntry = 1
    /\ nextMood = 1
    /\ jreqs = [r \in Reqs |-> JIdle]
NextRace ==
    \/ Tick
    \/ \E r \in Reqs :
          \/ Register(r) \/ Login(r) \/ Refresh(r) \/ SendTokenReply(r)
          \/ PostLogout(r) \/ ProtectNext(r) \/ ResetPassword(r) \/ Finish(r)
SpecRace == InitRace /\ [][NextRace]_vars

\* A reset and refreshes in flight together: the store of InitRace after a
\* forgotPassword of the demo user in this second, whose mail was delivered.
InitResetRace ==
    /\ refreshSecretSet = FALSE
    /\ rowCap = MaxRaceRows
    /\ diaryCap = [entries |-> MaxEntries, moods |-> MaxMoods]
    /\ Outside
    /\ now = MaxTime - 1
    /\ users = {DemoUser}
    /\ nextUser = 2
    /\ ledger = {[id |-> 1, token |-> generateTokens(1, now - 1).refreshToken,
                  user |-> 1, expiresAt |-> now - 1 + RefreshDays]}
    /\ nextRow = 2
    /\ reqs = [r \in Reqs |-> Idle]
    /\ issued = {PairOf(generateTokens(1, now - 1))}
    /\ mail = {[to |-> 1, raw |-> 1, expires |-> now + ResetSecs]}
    /\ nextReset = 2
    /\ seedPc = "idle"
    /\ entries = {}
    /\ moods = {}
    /\ nextEntry = 1
    /\ nextMood = 1
    /\ jreqs = [r \in Reqs |-> JIdle]
NextResetRace ==
    \/ Tick
    \/ \E r \in Reqs :
          \/ Refresh(r) \/ ResetPassword(r) \/ Finish(r)
SpecResetRace == InitResetRace /\ [][NextResetRace]_vars

(* ----------------------- global error handler ----------------------- *)
\* the values of process.env.NODE_ENV: `npm start` sets production,
\* `npm run server` sets nothing, and a .env file can set anything
NodeEnvs == {"development", "production", NoVal, "test"}

\* errors that a library threw: they are no AppError and carry no
\* isOperational
ThrownErrors == {"E11000 duplicate key", "ValidationError", "TypeError",
                 "DocumentNotFoundError"}
isOperational(q) == q.msg \notin ThrownErrors

\* sendErrorDev: res.status(err.statusCode).json(...)
sendErrorDev(q) == {q.status}

\* the production branch: the copy {...err}, the conversions by name and
\* code, then sendErrorProd.  Whether the copy of a library's error keeps
\* its name and errmsg depends on where the library defines them; without
\* them the conversion is skipped, or throws and express's final handler
\* answers 500.
sendErrorProd(q) ==
    IF isOperational(q) THEN {q.status}
    ELSE IF q.msg \in {"E11000 duplicate key", "ValidationError"} THEN {400, 500}
    ELSE {500}

\* a global error handler that answers under every NODE_ENV
StatusCodesAlways(q) ==
    IF nodeEnv = "development" THEN sendErrorDev(q) ELSE sendErrorProd(q)

\* the status codes that module.exports = (err, req, res, next) answers
\* with: none when NODE_ENV is neither development nor production
StatusCodes(q) ==
    IF nodeEnv = "development" THEN sendErrorDev(q)
    ELSE IF nodeEnv = "production" THEN sendErrorProd(q)
    ELSE {}

\* next(err) runs the global error handler, once
GlobalErrorHandler(r) ==
    /\ reqs[r].pc = "done"
    /\ reqs[r].out = "error"
    /\ reqs' = [reqs EXCEPT ![r].pc = "handled"]
    /\ IF StatusCodes(reqs[r]) = {}
       THEN UNCHANGED res
       ELSE \E statusCode \in StatusCodes(reqs[r]) :
               res' = [res EXCEPT ![r] = [sent |-> @.sent + 1,
                                          statusCode |-> statusCode]]
    /\ UNCHANGED <<now, users, nextUser, ledger, nextRow, issued, resets,
                   seedPc, deployment, browser, journal>>

\* the status code that the caller of request r has received, 0 while no
\* response was written
Response(r) ==
    IF reqs[r].pc = "done" /\ reqs[r].out = "json" THEN reqs[r].status
    ELSE IF reqs[r].pc = "handled" /\ res[r].sent > 0 THEN res[r].statusCode
    ELSE 0

\* the response has gone out and the connection serves the next request
Close(r) ==
    /\ Response(r) # 0
    /\ reqs' = [reqs EXCEPT ![r] = Idle]
    /\ res' = [res EXCEPT ![r] = NoResponse]
    /\ UNCHANGED <<now, users, nextUser, ledger, nextRow, issued, resets,
                   seedPc, deployment, browser, journal>>

\* Logins and refreshes on the store of InitRace, under each NODE_ENV.
InitErrors ==
    /\ refreshSecretSet = FALSE
    /\ rowCap = MaxRaceRows
    /\ diaryCap = [entries |-> MaxEntries, moods |-> MaxMoods]
    /\ nodeEnv \in NodeEnvs
    /\ res = [r \in Reqs |-> NoResponse]
    /\ localStorage = NoAuthData
    /\ calls = [c \in Reqs |-> CallIdle]
    /\ now = MaxTime - 1
    /\ users = {DemoUser}
    /\ nextUser = 2
    /\ ledger = {[id |-> 1, token |-> generateTokens(1, now - 1).refreshToken,
                  user |-> 1, expiresAt |-> now - 1 + RefreshDays]}
    /\ nextRow = 2
    /\ reqs = [r \in Reqs |-> Idle]
    /\ issued = {PairOf(generateTokens(1, now - 1))}
    /\ mail = {}
    /\ nextReset = 1
    /\ seedPc = "idle"
    /\ entries = {}
    /\ moods = {}
    /\ nextEntry = 1
    /\ nextMood = 1
    /\ jreqs = [r \in Reqs |-> JIdle]
NextErrors ==
    \E r \in Reqs :
        \/ Login(r) \/ Refresh(r) \/ SendTokenReply(r)
        \/ GlobalErrorHandler(r) \/ Close(r)
SpecErrors == InitErrors /\ [][NextErrors]_vars
\* express calls the error-handling middleware in the call of next(err):
\* an error that was handed over is handled
SpecErrorsFair ==
    SpecErrors /\ \A r \in Reqs : WF_vars(GlobalErrorHandler(r))

(* ----------------------------- the browser ---------------------------- *)
\* fetchAuthenticated up to its fetch(): getAccessToken() and the
\* Authorization header
FetchSend(c) ==
    /\ calls[c].pc = "idle"
    /\ calls' = [calls EXCEPT ![c] = [CallIdle EXCEPT !.pc = "fetch",
                                        !.tok = localStorage.accessToken]]
    /\ UNCHANGED <<now, users, nextUser, ledger, nextRow, reqs, issued, resets,
                   seedPc, deployment, res, localStorage, journal>>

\* the backend's side of call c: the request that the call has sent arrives
\* at protect and exports.me, or at exports.refresh
Backend(c) ==
    \/ /\ calls[c].pc = "fetch"
       /\ ProtectStart(c, "me", calls[c].tok, NoTok, NoVal, NoVal, NoVal)
    \/ ProtectNext(c)
    \/ /\ calls[c].pc = "refresh"
       /\ RefreshStart(c, calls[c].rt)
    \/ RefreshCheck(c)
    \/ RefreshRotate(c)
    \/ RefreshAfterDelete(c)
    \/ RefreshReply(c)
    \/ GlobalErrorHandler(c)

\* exports.refresh accepts the token: the ledger holds it, unexpired, and
\* its user exists
Accepts(rt) ==
    /\ FindRow(rt) # NoRow
    /\ ~RowExpired(FindRow(rt), now)
    /\ FindUserById(FindRow(rt).user) # 0

\* the call is over: it returned the data or threw
CallDone(call, out) == [call EXCEPT !.pc = "done", !.tok = NoTok, !.out = out]

\* fetchAuthenticated after its fetch(): a 401 of the first attempt runs
\* handleTokenRefresh up to its fetch(), which reads the refresh token of
\* localStorage; any other response is returned or thrown
FetchResponse(c) ==
    /\ calls[c].pc = "fetch"
    /\ Response(c) # 0
    /\ LET call == calls[c] IN
       IF Response(c) = 401 /\ ~call.isRetry
       THEN IF localStorage.refreshToken = NoTok
            THEN /\ localStorage' = NoAuthData
                 /\ calls' = [calls EXCEPT ![c] =
                        CallDone(call, "Session expired. Please log in again.")]
            ELSE /\ calls' = [calls EXCEPT ![c] =
                        [call EXCEPT !.pc = "refresh", !.tok = NoTok,
                                     !.rt = localStorage.refreshToken,
                                     !.live = Accepts(localStorage.refreshToken)]]
                 /\ UNCHANGED localStorage
       ELSE /\ calls' = [calls EXCEPT ![c] =
                   CallDone(call, IF Response(c) \in 200 .. 299
                                  THEN "success" ELSE "API Error")]
            /\ UNCHANGED localStorage
    /\ reqs' = [reqs EXCEPT ![c] = Idle]
    /\ res' = [res EXCEPT ![c] = NoResponse]
    /\ UNCHANGED <<now, users, nextUser, ledger, nextRow, issued, resets,
                   seedPc, deployment, journal>>

\* a handleTokenRefresh that leaves localStorage alone when its refresh is
\* refused
RefreshRefusedKeeping(c) == UNCHANGED localStorage

\* handleTokenRefresh when its refresh is refused: clearAuthData()
RefreshRefused(c) == localStorage' = NoAuthData

\* handleTokenRefresh after its fetch(): a 200 stores the new pair, and
\* fetchAuthenticated retries with getAccessToken(); anything else clears
\* localStorage, and fetchAuthenticated throws
RefreshResponse(c) ==
    /\ calls[c].pc = "refresh"
    /\ Response(c) # 0
    /\ LET call == calls[c]
           data == reqs[c].pair IN
       IF Response(c) = 200
       THEN /\ localStorage' = [accessToken |-> AccessOf(data),
                                refreshToken |-> RefreshOf(data)]
            /\ calls' = [calls EXCEPT ![c] =
                   [call EXCEPT !.pc = "fetch", !.tok = AccessOf(data),
                                !.isRetry = TRUE, !.pair = data]]
       ELSE /\ RefreshRefused(c)
            /\ calls' = [calls EXCEPT ![c] =
                   CallDone(call, "Session expired. Please log in again.")]
    /\ reqs' = [reqs EXCEPT ![c] = Idle]
    /\ res' = [res EXCEPT ![c] = NoResponse]
    /\ UNCHANGED <<now, users, nextUser, ledger, nextRow, issued, resets,
                   seedPc, deployment, journal>>

\* The dashboard mounts in a browser that holds the session of InitRace,
\* whose access token has run out, and its effects call fetchAuthenticated
\* together.
InitClient ==
    /\ refreshSecretSet = FALSE
    /\ rowCap = MaxRaceRows
    /\ diaryCap = [entries |-> MaxEntries, moods |-> MaxMoods]
    /\ nodeEnv = "production"
    /\ res = [r \in Reqs |-> NoResponse]
    /\ now = MaxTime - 1
    /\ localStorage = generateTokens(1, now - 1)
    /\ calls = [c \in Reqs |-> CallIdle]
    /\ users = {DemoUser}
    /\ nextUser = 2
    /\ ledger = {[id |-> 1, token |-> generateTokens(1, now - 1).refreshToken,
                  user |-> 1, expiresAt |-> now - 1 + RefreshDays]}
    /\ nextRow = 2
    /\ reqs = [r \in Reqs |-> Idle]
    /\ issued = {PairOf(generateTokens(1, now - 1))}
    /\ mail = {}
    /\ nextReset = 1
    /\ seedPc = "idle"
    /\ entries = {}
    /\ moods = {}
    /\ nextEntry = 1
    /\ nextMood = 1
    /\ jreqs = [r \in Reqs |-> JIdle]
NextClient ==
    \/ Tick
    \/ \E c \in Reqs :
          \/ FetchSend(c) \/ Backend(c) \/ FetchResponse(c) \/ RefreshResponse(c)
SpecClient == InitClient /\ [][NextClient]_vars

(* --------------------------- diary handlers --------------------------- *)
NoOptions == <<>>
JReply(q, statusCode) ==
    [JAnswered(q) EXCEPT !.out = "json", !.status = statusCode,
                         !.query = q.query, !.doc = q.doc, !.found = q.found,
                         !.total = q.total, !.data = q.data]

\* a write of another session's open transaction holds the document
LockedEntry(r, id) ==
    \E o \in Reqs \ {r} :
        /\ jreqs[o].txn.state = "active"
        /\ id \in Touched(jreqs[o].txn.viewE, jreqs[o].txn.snapE)
LockedMood(r, id) ==
    \E o \in Reqs \ {r} :
        /\ jreqs[o].txn.state = "active"
        /\ id \in Touched(jreqs[o].txn.viewM, jreqs[o].txn.snapM)
\* a write inside a transaction fails with WriteConflict when the document
\* was written after the transaction's snapshot, or is held by another one
WriteConflictEntry(r, t, id) ==
    DocById(entries, id) # DocById(t.snapE, id) \/ LockedEntry(r, id)
WriteConflictMood(r, t, id) ==
    DocById(moods, id) # DocById(t.snapM, id) \/ LockedMood(r, id)

\* session.startTransaction(), at the first operation of the session
BeginTxn == [state |-> "active", snapE |-> entries, snapM |-> moods,
             viewE |-> entries, viewM |-> moods]

\* how many requests in flight will still draw a Mood's ObjectId
DrawsMood(q) ==
    /\ q.op \in {"createEntry", "updateEntry"}
    /\ q.pc \in {"ce_session", "ce_created", "ue_session", "ue_found"}
    /\ Truthy(Field(q.body, "moodTypeId"))
MoodIdsAhead == Cardinality({o \in Reqs : DrawsMood(jreqs[o])})
EntryIdsAhead == Cardinality({o \in Reqs : jreqs[o].pc = "ce_session"})
Admits(body) ==
    Truthy(Field(body, "moodTypeId")) => nextMood + MoodIdsAhead <= diaryCap.moods

\* the catch block's choice of the AppError, by the name of what was thrown
Caught(q, t, name) ==
    [q EXCEPT !.pc = "caught", !.txn = t,
              !.status = IF name = "ValidationError" THEN 400 ELSE 500,
              !.msg = IF name = "ValidationError" THEN "Invalid input data."
                      ELSE IF q.op = "createEntry"
                          THEN "Error creating journal entry."
                          ELSE "Error updating journal entry."]
\* catch (error) { await session.abortTransaction(); ... }: a transaction
\* that is open is aborted; on a session whose transaction has committed,
\* abortTransaction throws, and that error is what leaves the handler
Catch(r) ==
    /\ jreqs[r].pc = "caught"
    /\ LET q == jreqs[r]
       IN  IF q.txn.state = "committed"
               THEN JSet(r, JFail(q, 500,
                   "Cannot call abortTransaction after calling commitTransaction"))
               ELSE JSet(r, [q EXCEPT !.pc = "aborted", !.txn = NoTxn])
    /\ UNCHANGED <<accounts, entries, moods, nextEntry, nextMood>>
\* return next(new AppError(...)), after the abort
Rethrow(r) ==
    /\ jreqs[r].pc = "aborted"
    /\ JSet(r, JFail(jreqs[r], jreqs[r].status, jreqs[r].msg))
    /\ UNCHANGED <<accounts, entries, moods, nextEntry, nextMood>>
\* await session.commitTransaction()
CommitTransaction(r, ok) ==
    LET q == jreqs[r]
    IN  IF ok
            THEN /\ entries' = Apply(entries, q.txn.viewE, q.txn.snapE)
                 /\ moods' = Apply(moods, q.txn.viewM, q.txn.snapM)
                 /\ JSet(r, [q EXCEPT !.pc = "committed",
                                      !.txn = [NoTxn EXCEPT !.state = "committed"]])
            ELSE /\ JSet(r, Caught(q, q.txn, "MongoError"))
                 /\ UNCHANGED <<entries, moods>>
\* const populatedEntry = await JournalEntry.findById(id)
Refetch(r, ok) ==
    LET q == jreqs[r]
    IN  IF ok
            THEN JSet(r, [q EXCEPT !.pc = "fetched",
                     !.doc = FindOne(entries, moods, [_id |-> q.doc.id], NoOptions)])
            ELSE JSet(r, Caught(q, q.txn, "MongoError"))

(* createEntry *)
CreateEntryStart(r, caller, body) ==
    /\ jreqs[r].pc = "idle"
    /\ nextEntry + EntryIdsAhead <= diaryCap.entries
    /\ Admits(body)
    /\ LET q == [JIdle EXCEPT !.op = "createEntry", !.caller = caller,
                              !.body = body]
       IN  IF \/ ~Truthy(Field(body, "title")) \/ ~Truthy(Field(body, "content"))
              \/ ~Truthy(Field(body, "category"))
               THEN JSet(r, JFail(q, 400,
                        "Please provide title, content, and category"))
               ELSE JSet(r, [q EXCEPT !.pc = "ce_session"])
    /\ UNCHANGED <<accounts, entries, moods, nextEntry, nextMood>>

CreateEntryInsert(r, ok) ==
    /\ jreqs[r].pc = "ce_session"
    /\ LET q == jreqs[r]
           entryData == [id |-> nextEntry, title |-> q.body.title,
                         content |-> q.body.content,
                         category |-> ToUpperCase(q.body.category),
                         user |-> q.caller, mood |-> Null, deletedAt |-> Null,
                         createdAt |-> now]
       IN  IF ~ValidEntry(entryData)
               THEN /\ JSet(r, Caught(q, BeginTxn, "ValidationError"))
                    /\ UNCHANGED nextEntry
           ELSE IF ~ok
               THEN /\ JSet(r, Caught(q, BeginTxn, "MongoError"))
                    /\ UNCHANGED nextEntry
           ELSE /\ JSet(r, [q EXCEPT !.pc = "ce_created", !.doc = entryData,
                         !.txn = [BeginTxn EXCEPT !.viewE = @ \cup {entryData}]])
                /\ nextEntry' = nextEntry + 1
    /\ UNCHANGED <<accounts, entries, moods, nextMood>>

\* the Mood that createEntry and updateEntry build from the body
MoodData(q, id) ==
    [id |-> id, moodType |-> q.body.moodTypeId, user |-> q.caller,
     intensity |-> IF Has(q.body, "moodIntensity") THEN q.body.moodIntensity
                   ELSE DefaultIntensity,
     date |-> IF Has(q.body, "moodDate") THEN q.body.moodDate ELSE now,
     journalEntry |-> q.doc.id]

CreateEntryMood(r, ok) ==
    /\ jreqs[r].pc = "ce_created"
    /\ Truthy(Field(jreqs[r].body, "moodTypeId"))
    /\ LET q == jreqs[r]
           moodData == MoodData(q, nextMood)
       IN  IF ~ValidIntensity(moodData.intensity)
               THEN /\ JSet(r, Caught(q, q.txn, "ValidationError"))
                    /\ UNCHANGED nextMood
           ELSE IF ~ok
               THEN /\ JSet(r, Caught(q, q.txn, "MongoError"))
                    /\ UNCHANGED nextMood
           ELSE /\ JSet(r, [q EXCEPT !.pc = "ce_mood", !.mood = nextMood,
                                     !.txn.viewM = @ \cup {moodData}])
                /\ nextMood' = nextMood + 1
    /\ UNCHANGED <<accounts, entries, moods, nextEntry>>

\* createEntry without its step 3: the Mood is created, the entry is not
\* updated with its id
CreateEntryLinkUnsaved(r, ok) ==
    /\ jreqs[r].pc = "ce_mood"
    /\ JSet(r, [jreqs[r] EXCEPT !.pc = "ce_linked"])
    /\ UNCHANGED <<accounts, entries, moods, nextEntry, nextMood>>

\* newEntry.mood = newMood._id; await newEntry.save({ session })
CreateEntryLink(r, ok) ==
    /\ jreqs[r].pc = "ce_mood"
    /\ LET q == jreqs[r]
       IN  IF ~ok
               THEN JSet(r, Caught(q, q.txn, "MongoError"))
               ELSE JSet(r, [q EXCEPT !.pc = "ce_linked", !.doc.mood = q.mood,
                       !.txn.viewE = SetFields(@, q.doc.id, [mood |-> q.mood])])
    /\ UNCHANGED <<accounts, entries, moods, nextEntry, nextMood>>

CreateEntryCommit(r, ok) ==
    /\ \/ jreqs[r].pc = "ce_linked"
       \/ /\ jreqs[r].pc = "ce_created"
          /\ ~Truthy(Field(jreqs[r].body, "moodTypeId"))
    /\ CommitTransaction(r, ok)
    /\ UNCHANGED <<accounts, nextEntry, nextMood>>

CreateEntryRefetch(r, ok) ==
    /\ jreqs[r].op = "createEntry" /\ jreqs[r].pc = "committed"
    /\ Refetch(r, ok)
    /\ UNCHANGED <<accounts, entries, moods, nextEntry, nextMood>>

CreateEntryReply(r) ==
    /\ jreqs[r].op = "createEntry" /\ jreqs[r].pc = "fetched"
    /\ JSet(r, JReply(jreqs[r], 201))
    /\ UNCHANGED <<accounts, entries, moods, nextEntry, nextMood>>

CreateEntryCatch(r) ==
    /\ jreqs[r].op = "createEntry"
    /\ Catch(r) \/ Rethrow(r)

(* updateEntry *)
UpdateEntryStart(r, caller, id, body) ==
    /\ jreqs[r].pc = "idle"
    /\ Admits(body)
    /\ JSet(r, [JIdle EXCEPT !.op = "updateEntry", !.pc = "ue_session",
                             !.caller = caller, !.id = id, !.body = body])
    /\ UNCHANGED <<accounts, entries, moods, nextEntry, nextMood>>

UpdateEntryFind(r, ok) ==
    /\ jreqs[r].pc = "ue_session"
    /\ LET q == jreqs[r]
           existingEntry == FindOne(entries, moods,
                                    [_id |-> q.id, user |-> q.caller], NoOptions)
       IN  IF ~ok
               THEN JSet(r, Caught(q, BeginTxn, "MongoError"))
           ELSE IF existingEntry = NoEntry
               THEN JSet(r, [q EXCEPT !.pc = "caught", !.txn = BeginTxn,
                       !.status = 404,
                       !.msg = "No journal entry found with that ID for this user"])
           ELSE JSet(r, [q EXCEPT !.pc = "ue_found", !.txn = BeginTxn,
                                  !.doc = existingEntry])
    /\ UNCHANGED <<accounts, entries, moods, nextEntry, nextMood>>

\* an updateEntry that creates a Mood whenever it is given a mood type
MoodBranchCreating(q) ==
    IF Field(q.body, "moodTypeId") = NoVal THEN "none"
    ELSE IF Truthy(Field(q.body, "moodTypeId")) THEN "create"
    ELSE IF q.doc.mood # Null THEN "delete"
    ELSE "none"

\* which branch of "3. Handle Mood update/creation/deletion" runs
MoodBranch(q) ==
    LET moodTypeId == Field(q.body, "moodTypeId")
        existingMoodId == q.doc.mood
    IN  IF moodTypeId = NoVal THEN "none"
        ELSE IF existingMoodId # Null /\ Truthy(moodTypeId) THEN "update"
        ELSE IF existingMoodId = Null /\ Truthy(moodTypeId) THEN "create"
        ELSE IF existingMoodId # Null /\ ~Truthy(moodTypeId) THEN "delete"
        ELSE "none"

UpdateEntryMood(r, ok) ==
    /\ jreqs[r].pc = "ue_found"
    /\ MoodBranch(jreqs[r]) # "none"
    /\ LET q == jreqs[r]
           branch == MoodBranch(q)
           existingMoodId == q.doc.mood
           moodData == MoodData(q, nextMood)
           update == IF Has(q.body, "moodIntensity")
                         THEN [moodType |-> moodData.moodType,
                               user |-> moodData.user,
                               intensity |-> moodData.intensity,
                               date |-> moodData.date,
                               journalEntry |-> moodData.journalEntry]
                         ELSE [moodType |-> moodData.moodType,
                               user |-> moodData.user,
                               date |-> moodData.date,
                               journalEntry |-> moodData.journalEntry]
       IN  IF branch # "delete" /\ ~ValidIntensity(moodData.intensity)
               THEN /\ JSet(r, Caught(q, q.txn, "ValidationError"))
                    /\ UNCHANGED nextMood
           ELSE IF ~ok \/ (branch # "create"
                              /\ WriteConflictMood(r, q.txn, existingMoodId))
               THEN /\ JSet(r, Caught(q, q.txn, "MongoError"))
                    /\ UNCHANGED nextMood
           ELSE IF branch = "update"
               THEN /\ JSet(r, [q EXCEPT !.pc = "ue_mood",
                           !.txn.viewM = SetFields(@, existingMoodId, update)])
                    /\ UNCHANGED nextMood
           ELSE IF branch = "create"
               THEN /\ JSet(r, [q EXCEPT !.pc = "ue_mood", !.mood = nextMood,
                           !.doc.mood = nextMood, !.dirty = @ \cup {"mood"},
                           !.txn.viewM = @ \cup {moodData}])
                    /\ nextMood' = nextMood + 1
           ELSE /\ JSet(r, [q EXCEPT !.pc = "ue_mood", !.doc.mood = Null,
                           !.dirty = @ \cup {"mood"},
                           !.txn.viewM = DeleteById(@, existingMoodId)])
                /\ UNCHANGED nextMood
    /\ UNCHANGED <<accounts, entries, moods, nextEntry>>

\* "2. Update JournalEntry fields" and "4. Save the updated JournalEntry":
\* save() validates the document and sends its modified paths
UpdateEntrySave(r, ok) ==
    /\ \/ jreqs[r].pc = "ue_mood"
       \/ jreqs[r].pc = "ue_found" /\ MoodBranch(jreqs[r]) = "none"
    /\ LET q == jreqs[r]
           set == [p \in {"title", "content", "category"} \cap DOMAIN q.body |->
                       IF p = "category" THEN ToUpperCase(q.body[p])
                       ELSE q.body[p]]
           existingEntry ==
               [p \in DOMAIN q.doc |-> IF p \in DOMAIN set THEN set[p] ELSE q.doc[p]]
           modified == q.dirty \cup {p \in DOMAIN set : set[p] # q.doc[p]}
       IN  IF ~ValidEntry(existingEntry)
               THEN JSet(r, Caught(q, q.txn, "ValidationError"))
           ELSE IF modified # {} /\ (~ok \/ WriteConflictEntry(r, q.txn, q.doc.id))
               THEN JSet(r, Caught(q, q.txn, "MongoError"))
           ELSE JSet(r, [q EXCEPT !.pc = "ue_saved", !.doc = existingEntry,
                   !.dirty = {},
                   !.txn.viewE = SetFields(@, q.doc.id,
                                     [p \in modified |-> existingEntry[p]])])
    /\ UNCHANGED <<accounts, entries, moods, nextEntry, nextMood>>

UpdateEntryCommit(r, ok) ==
    /\ jreqs[r].pc = "ue_saved"
    /\ CommitTransaction(r, ok)
    /\ UNCHANGED <<accounts, nextEntry, nextMood>>

UpdateEntryRefetch(r, ok) ==
    /\ jreqs[r].op = "updateEntry" /\ jreqs[r].pc = "committed"
    /\ Refetch(r, ok)
    /\ UNCHANGED <<accounts, entries, moods, nextEntry, nextMood>>

UpdateEntryReply(r) ==
    /\ jreqs[r].op = "updateEntry" /\ jreqs[r].pc = "fetched"
    /\ JSet(r, JReply(jreqs[r], 200))
    /\ UNCHANGED <<accounts, entries, moods, nextEntry, nextMood>>

UpdateEntryCatch(r) ==
    /\ jreqs[r].op = "updateEntry"
    /\ Catch(r) \/ Rethrow(r)

(* deleteEntry *)
DeleteEntryFind(r, caller, id) ==
    /\ jreqs[r].pc = "idle"
    /\ JSet(r, [JIdle EXCEPT !.op = "deleteEntry", !.pc = "de_found",
                  !.caller = caller, !.id = id,
                  !.doc = FindOne(entries, moods,
                                  [_id |-> id, user |-> caller], NoOptions)])
    /\ UNCHANGED <<accounts, entries, moods, nextEntry, nextMood>>

\* entrySchema.methods.softDelete
softDelete(docs, id, t) == SetFields(docs, id, [deletedAt |-> t])

DeleteEntrySoftDelete(r) ==
    /\ jreqs[r].pc = "de_found"
    /\ LET q == jreqs[r]
       IN  IF q.doc = NoEntry
               THEN /\ JSet(r, JFail(q, 404,
                        "No journal entry found with that ID for this user"))
                    /\ UNCHANGED entries
               ELSE /\ ~LockedEntry(r, q.doc.id)
                    /\ entries' = softDelete(entries, q.doc.id, now)
                    /\ JSet(r, [q EXCEPT !.pc = "de_deleted"])
    /\ UNCHANGED <<accounts, moods, nextEntry, nextMood>>

\* if (entry.mood) await Mood.findByIdAndDelete(entry.mood)
DeleteEntryMood(r) ==
    /\ jreqs[r].pc = "de_deleted"
    /\ jreqs[r].doc.mood # Null
    /\ ~LockedMood(r, jreqs[r].doc.mood)
    /\ moods' = DeleteById(moods, jreqs[r].doc.mood)
    /\ JSet(r, [jreqs[r] EXCEPT !.pc = "de_mood"])
    /\ UNCHANGED <<accounts, entries, nextEntry, nextMood>>

DeleteEntryReply(r) ==
    /\ \/ jreqs[r].pc = "de_mood"
       \/ jreqs[r].pc = "de_deleted" /\ jreqs[r].doc.mood = Null
    /\ JSet(r, JReply(jreqs[r], 204))
    /\ UNCHANGED <<accounts, entries, moods, nextEntry, nextMood>>

(* createMood, the handler of POST /moods *)
\* up to MoodType.findById(moodTypeId)
CreateMoodStart(r, caller, body) ==
    /\ jreqs[r].pc = "idle"
    /\ nextMood <= diaryCap.moods
    /\ LET q == [JIdle EXCEPT !.op = "createMood", !.caller = caller,
                              !.body = body]
       IN  IF ~Truthy(Field(body, "moodTypeId"))
               THEN JSet(r, JFail(q, 400, "Please provide a mood type ID"))
               ELSE JSet(r, [q EXCEPT !.pc = "cm_type"])
    /\ UNCHANGED <<accounts, entries, moods, nextEntry, nextMood>>
\* if (!moodTypeExists); if (journalEntryId) JournalEntry.findOne({_id:
\* journalEntryId, user: userId})
CreateMoodFindEntry(r) ==
    /\ jreqs[r].pc = "cm_type"
    /\ LET q == jreqs[r]
       IN  IF q.body.moodTypeId \notin moodTypes
               THEN JSet(r, JFail(q, 400, "Invalid mood type ID"))
           ELSE IF ~Has(q.body, "journalEntryId")
               THEN JSet(r, [q EXCEPT !.pc = "cm_entry"])
           ELSE JSet(r, [q EXCEPT !.pc = "cm_entry",
                   !.doc = FindOne(entries, moods,
                               [_id |-> q.body.journalEntryId, user |-> q.caller],
                               NoOptions)])
    /\ UNCHANGED <<accounts, entries, moods, nextEntry, nextMood>>
\* if (!entryExists); the check for a mood that the entry already has is
\* commented out; Mood.create(moodData)
CreateMoodCreate(r) ==
    /\ jreqs[r].pc = "cm_entry"
    /\ LET q == jreqs[r]
           moodData == [id |-> nextMood, moodType |-> q.body.moodTypeId,
                        user |-> q.caller, intensity |-> DefaultIntensity,
                        date |-> now,
                        journalEntry |-> IF Has(q.body, "journalEntryId")
                                             THEN q.body.journalEntryId
                                             ELSE Null]
       IN  IF Has(q.body, "journalEntryId") /\ q.doc = NoEntry
               THEN /\ JSet(r, JFail(q, 400,
                     "Invalid journal entry ID or entry does not belong to user"))
                    /\ UNCHANGED <<moods, nextMood>>
               ELSE /\ moods' = moods \cup {moodData}
                    /\ nextMood' = nextMood + 1
                    /\ JSet(r, [q EXCEPT !.pc = "cm_created", !.mood = nextMood])
    /\ UNCHANGED <<accounts, entries, nextEntry>>
\* if (journalEntryId) JournalEntry.findByIdAndUpdate(journalEntryId, {mood:
\* newMood._id}), a findOneAndUpdate, which passes the query middleware
CreateMoodLink(r) ==
    /\ jreqs[r].pc = "cm_created"
    /\ Has(jreqs[r].body, "journalEntryId")
    /\ LET q == jreqs[r]
           id == q.body.journalEntryId
       IN  /\ ~LockedEntry(r, id)
           /\ entries' = IF Find(entries, [_id |-> id], NoOptions) = {}
                             THEN entries
                             ELSE SetFields(entries, id, [mood |-> q.mood])
           /\ JSet(r, [q EXCEPT !.pc = "cm_linked"])
    /\ UNCHANGED <<accounts, moods, nextEntry, nextMood>>
\* const populatedMood = await Mood.findById(newMood._id)
CreateMoodRefetch(r) ==
    /\ \/ jreqs[r].pc = "cm_linked"
       \/ jreqs[r].pc = "cm_created" /\ ~Has(jreqs[r].body, "journalEntryId")
    /\ JSet(r, [jreqs[r] EXCEPT !.pc = "cm_fetched",
                  !.data = [mood |-> DocById(moods, jreqs[r].mood)]])
    /\ UNCHANGED <<accounts, entries, moods, nextEntry, nextMood>>
CreateMoodReply(r) ==
    /\ jreqs[r].pc = "cm_fetched"
    /\ JSet(r, JReply(jreqs[r], 201))
    /\ UNCHANGED <<accounts, entries, moods, nextEntry, nextMood>>

(* the reads *)
\* a getEntries whose filter lets the query string name the user
GetEntriesFindAnyUser(r, caller, query) ==
    /\ jreqs[r].pc = "idle"
    /\ LET filter == [p \in DOMAIN query \cup {"user"} |->
                         IF p \in DOMAIN query THEN query[p] ELSE caller]
       IN  JSet(r, [JIdle EXCEPT !.op = "getEntries", !.pc = "found",
                      !.caller = caller, !.query = filter,
                      !.found = Find(entries, filter, NoOptions)])
    /\ UNCHANGED <<accounts, entries, moods, nextEntry, nextMood>>

\* queryObj = {...req.query} without page, sort, limit, fields; filter.user
\* = userId is assigned after the copy, so a user in the query string is
\* overwritten
GetEntriesFind(r, caller, query) ==
    /\ jreqs[r].pc = "idle"
    /\ LET filter == [p \in DOMAIN query \cup {"user"} |->
                         IF p = "user" THEN caller ELSE query[p]]
       IN  JSet(r, [JIdle EXCEPT !.op = "getEntries", !.pc = "found",
                      !.caller = caller, !.query = filter,
                      !.found = Find(entries, filter, NoOptions)])
    /\ UNCHANGED <<accounts, entries, moods, nextEntry, nextMood>>

SearchEntriesFind(r, caller) ==
    /\ jreqs[r].pc = "idle"
    /\ JSet(r, [JIdle EXCEPT !.op = "searchEntries", !.pc = "found",
                  !.caller = caller, !.query = [user |-> caller],
                  !.found = Find(entries, [user |-> caller], NoOptions)])
    /\ UNCHANGED <<accounts, entries, moods, nextEntry, nextMood>>

\* const total = await JournalEntry.countDocuments(filter)
CountEntries(r) ==
    /\ jreqs[r].op \in {"getEntries", "searchEntries"}
    /\ jreqs[r].pc = "found"
    /\ JSet(r, [jreqs[r] EXCEPT !.pc = "counted",
                  !.total = CountDocuments(entries, jreqs[r].query)])
    /\ UNCHANGED <<accounts, entries, moods, nextEntry, nextMood>>

\* fetchEntriesForExport
ExportEntriesFind(r, caller) ==
    /\ jreqs[r].pc = "idle"
    /\ JSet(r, [JIdle EXCEPT !.op = "exportEntries", !.pc = "counted",
                  !.caller = caller, !.query = [user |-> caller],
                  !.found = Find(entries, [user |-> caller], NoOptions)])
    /\ UNCHANGED <<accounts, entries, moods, nextEntry, nextMood>>

\* res.status(200).json({results: entries.length, data: {entries}, ...})
ListReply(r) ==
    /\ jreqs[r].op \in {"getEntries", "searchEntries", "exportEntries"}
    /\ jreqs[r].pc = "counted"
    /\ JSet(r, JReply(jreqs[r], 200))
    /\ UNCHANGED <<accounts, entries, moods, nextEntry, nextMood>>

GetEntryFind(r, caller, id) ==
    /\ jreqs[r].pc = "idle"
    /\ JSet(r, [JIdle EXCEPT !.op = "getEntry", !.pc = "g_found",
                  !.caller = caller, !.id = id,
                  !.doc = FindOne(entries, moods,
                                  [_id |-> id, user |-> caller], NoOptions)])
    /\ UNCHANGED <<accounts, entries, moods, nextEntry, nextMood>>

GetEntryReply(r) ==
    /\ jreqs[r].pc = "g_found"
    /\ IF jreqs[r].doc = NoEntry
           THEN JSet(r, JFail(jreqs[r], 404,
                    "No journal entry found with that ID for this user"))
           ELSE JSet(r, JReply(jreqs[r], 200))
    /\ UNCHANGED <<accounts, entries, moods, nextEntry, nextMood>>

\* a restore that stamps the entry again instead of clearing the stamp
restoreByIdStamping(id) ==
    /\ Find(entries, [_id |-> id], [withDeleted |-> TRUE]) # {}
    /\ entries' = softDelete(entries, id, now)
    /\ UNCHANGED <<accounts, moods, nextEntry, nextMood, jreqs>>

\* entrySchema.statics.restoreById: findByIdAndUpdate(id, {$set: {deletedAt:
\* null}}) with the option withDeleted, which no route calls
restoreById(id) ==
    /\ Find(entries, [_id |-> id], [withDeleted |-> TRUE]) # {}
    /\ ~LockedEntry("", id)
    /\ entries' = SetFields(entries, id, [deletedAt |-> Null])
    /\ UNCHANGED <<accounts, moods, nextEntry, nextMood, jreqs>>

JFinish(r) ==
    /\ jreqs[r].pc = "done"
    /\ JSet(r, JIdle)
    /\ UNCHANGED <<accounts, entries, moods, nextEntry, nextMood>>

(* the mood statistics *)
\* The calendar, scaled: an instant of the clock lies in the day
\* format(t), a month has DaysPerMonth days, and the run stays within one
\* year.  format(date, 'yyyy-MM-dd'):
format(t) == t \div TicksPerDay
startOfDay(t) == format(t) * TicksPerDay
endOfDay(t) == startOfDay(t) + TicksPerDay - 1
subMonths(t, n) == t - n * DaysPerMonth * TicksPerDay
\* new Date().getMonth() + 1
getMonth(t) == (format(t) \div DaysPerMonth) + 1
\* parseInt of a parameter of the query string
parseInt(v) == CASE v = "1" -> 1 [] v = "2" -> 2 [] v = "13" -> 13 [] OTHER -> 0

\* $lookup and $unwind of moods, then of moodtypes: the moodTypeDetails of
\* an entry, which is missing when either lookup found no row
moodTypeDetails(e, moodDocs) ==
    IF \E m \in DocById(moodDocs, e.mood) : m.moodType \in moodTypes
        THEN (CHOOSE m \in DocById(moodDocs, e.mood) : TRUE).moodType
        ELSE JsNull
\* a pipeline without its second $match
LookupsUnfiltered(es, moodDocs) == es
\* "Filter out docs where lookups failed"
LookupsFound(es, moodDocs) ==
    {e \in es : moodTypeDetails(e, moodDocs) # JsNull}
\* JournalEntry.aggregate(pipeline): $match by user, window and mood, the
\* lookups, $group by mood type with $sum, $sort by count descending.  The
\* order of groups of equal count is the store's choice, so this is the set
\* of the results it can return.  An aggregate passes no query middleware.
aggregate(docs, moodDocs, caller, fromDate, toDate) ==
    LET matched == {e \in docs : /\ e.user = caller
                                 /\ e.createdAt >= fromDate
                                 /\ e.createdAt <= toDate
                                 /\ e.mood # Null}
        found == LookupsFound(matched, moodDocs)
        groups == {[moodType |-> ty,
                    count |-> Cardinality({e \in found :
                                  moodTypeDetails(e, moodDocs) = ty})] :
                   ty \in {moodTypeDetails(e, moodDocs) : e \in found}}
    IN  {s \in [1 .. Cardinality(groups) -> groups] :
            /\ \A i, j \in DOMAIN s : i # j => s[i] # s[j]
            /\ \A i, j \in DOMAIN s : i < j => s[i].count >= s[j].count}

\* getMoodStats of the mood controller that takes no period: the window is
\* the month that ends today
GetMoodStatsAggregate(r, caller) ==
    /\ jreqs[r].pc = "idle"
    /\ LET toDate == endOfDay(now)
           fromDate == startOfDay(subMonths(toDate, 1))
       IN  \E stats \in aggregate(entries, moods, caller, fromDate, toDate) :
              JSet(r, [JIdle EXCEPT !.op = "getMoodStats", !.pc = "ms_stats",
                         !.caller = caller, !.data = [moodCounts |-> stats]])
    /\ UNCHANGED <<accounts, entries, moods, nextEntry, nextMood>>
\* maxCount, mostFrequentMoods and the response
GetMoodStatsReply(r) ==
    /\ jreqs[r].op = "getMoodStats" /\ jreqs[r].pc = "ms_stats"
    /\ LET stats == jreqs[r].data.moodCounts
           maxCount == IF Len(stats) > 0 THEN stats[1].count ELSE 0
           IsMax(stat) == stat.count = maxCount
           top == IF maxCount > 0 THEN SelectSeq(stats, IsMax) ELSE <<>>
       IN  JSet(r, JReply([jreqs[r] EXCEPT !.data =
                   [moodCounts |-> stats,
                    mostFrequentMoods |->
                        [i \in DOMAIN top |-> top[i].moodType]]], 200))
    /\ UNCHANGED <<accounts, entries, moods, nextEntry, nextMood>>

\* getMoodStats of the mood controller that takes a period, for the default
\* period 'month': the same pipeline over the same window
GetMoodStatsByPeriodAggregate(r, caller) ==
    /\ jreqs[r].pc = "idle"
    /\ LET toDate == endOfDay(now)
           fromDate == startOfDay(subMonths(toDate, 1))
       IN  \E stats \in aggregate(entries, moods, caller, fromDate, toDate) :
              JSet(r, [JIdle EXCEPT !.op = "getMoodStatsByPeriod",
                         !.pc = "ms_stats",
                         !.caller = caller, !.data = [moodCounts |-> stats]])
    /\ UNCHANGED <<accounts, entries, moods, nextEntry, nextMood>>
\* const mostFrequentMood = stats.length > 0 ? stats[0].moodType : null
GetMoodStatsByPeriodReply(r) ==
    /\ jreqs[r].op = "getMoodStatsByPeriod" /\ jreqs[r].pc = "ms_stats"
    /\ LET stats == jreqs[r].data.moodCounts
       IN  JSet(r, JReply([jreqs[r] EXCEPT !.data =
                   [moodCounts |-> stats,
                    mostFrequentMood |->
                        IF Len(stats) > 0 THEN stats[1].moodType
                        ELSE JsNull]], 200))
    /\ UNCHANGED <<accounts, entries, moods, nextEntry, nextMood>>

\* the populate of mood and, within it, of moodType: null for a reference
\* that names no row
NoMood == [id |-> Null, moodType |-> JsNull, user |-> 0, intensity |-> 0,
           date |-> 0, journalEntry |-> Null]
PopulatedMood(e, moodDocs) ==
    IF DocById(moodDocs, e.mood) = {}
        THEN [e EXCEPT !.mood = NoMood]
        ELSE LET m == CHOOSE d \in DocById(moodDocs, e.mood) : TRUE
             IN  [e EXCEPT !.mood =
                     [m EXCEPT !.moodType = IF m.moodType \in moodTypes
                                                THEN m.moodType ELSE JsNull]]
\* a calendar that files an entry under the day of its mood's date
dateKeyOfMood(entry) == format(entry.mood.date)
\* const dateKey = format(entry.createdAt, 'yyyy-MM-dd')
dateKey(entry) == format(entry.createdAt)
\* the reduce of getMoodCalendar over the entries found, in their order
calendarData(found) ==
    LET Kept(entry) == entry.mood # NoMood /\ entry.mood.moodType # JsNull
        kept == SelectSeq(found, Kept)
    IN  [k \in {dateKey(kept[i]) : i \in DOMAIN kept} |->
            LET OfDay(entry) == dateKey(entry) = k
                ofDay == SelectSeq(kept, OfDay)
            IN  [i \in DOMAIN ofDay |->
                    [id |-> ofDay[i].mood.id,
                     intensity |-> ofDay[i].mood.intensity,
                     moodType |-> ofDay[i].mood.moodType]]]
\* getMoodCalendar up to its find: the month of the query string or the
\* current one, its first and last day, the caller's live entries of the
\* month with a mood, populated, sorted by createdAt (entries of one
\* instant in the order the store chooses)
GetMoodCalendarFind(r, caller, query) ==
    /\ jreqs[r].pc = "idle"
    /\ LET q == [JIdle EXCEPT !.op = "getMoodCalendar", !.caller = caller,
                              !.query = query]
           month == IF parseInt(Field(query, "month")) # 0
                        THEN parseInt(Field(query, "month"))
                        ELSE getMonth(now)
           startDate == (month - 1) * DaysPerMonth * TicksPerDay
           endDate == endOfDay(month * DaysPerMonth * TicksPerDay - TicksPerDay)
           matched == {e \in PreFind(entries, NoOptions) :
                          /\ e.user = caller
                          /\ e.createdAt >= startDate /\ e.createdAt <= endDate
                          /\ e.mood # Null}
       IN  IF month < 1 \/ month > 12
               THEN JSet(r, JFail(q, 400, "Invalid month specified."))
               ELSE \E s \in [1 .. Cardinality(matched) -> matched] :
                       /\ \A i, j \in DOMAIN s : i # j => s[i] # s[j]
                       /\ \A i, j \in DOMAIN s :
                             i < j => s[i].createdAt <= s[j].createdAt
                       /\ JSet(r, [q EXCEPT !.pc = "mc_found", !.found = matched,
                             !.data = [month |-> month,
                                 entries |-> [i \in DOMAIN s |->
                                     PopulatedMood(s[i], moods)]]])
    /\ UNCHANGED <<accounts, entries, moods, nextEntry, nextMood>>
GetMoodCalendarReply(r) ==
    /\ jreqs[r].pc = "mc_found"
    /\ JSet(r, JReply([jreqs[r] EXCEPT !.data =
             [calendarData |-> calendarData(jreqs[r].data.entries),
              month |-> jreqs[r].data.month]], 200))
    /\ UNCHANGED <<accounts, entries, moods, nextEntry, nextMood>>

(* the requests that the diary's specification sends *)
EntryIds == 1 .. MaxEntries
CreateBodies ==
    {[title |-> "Monday", content |-> "Rain.", category |-> "work"],
     [content |-> "Rain.", category |-> "work"],
     [title |-> "Monday", content |-> "Rain.", category |-> "diary"],
     [title |-> "Monday", content |-> "Rain.", category |-> "WORK",
      moodTypeId |-> "happy"],
     [title |-> "Monday", content |-> "Rain.", category |-> "WORK",
      moodTypeId |-> "happy", moodIntensity |-> 9]}
UpdateBodies ==
    {[title |-> "Tuesday"],
     [category |-> "diary"],
     [moodTypeId |-> "calm", moodIntensity |-> 4],
     [moodTypeId |-> "calm", moodIntensity |-> 9],
     [moodTypeId |-> JsNull]}
Queries == {<<>>, [withDeleted |-> ""], [withDeleted |-> "true"], [user |-> 2]}

CreateEntry(r) ==
    \/ \E caller \in UserIds, body \in CreateBodies :
          CreateEntryStart(r, caller, body)
    \/ \E ok \in BOOLEAN :
          \/ CreateEntryInsert(r, ok) \/ CreateEntryMood(r, ok)
          \/ CreateEntryLink(r, ok) \/ CreateEntryCommit(r, ok)
          \/ CreateEntryRefetch(r, ok)
    \/ CreateEntryReply(r)
    \/ CreateEntryCatch(r)

UpdateEntry(r) ==
    \/ \E caller \in UserIds, id \in EntryIds, body \in UpdateBodies :
          UpdateEntryStart(r, caller, id, body)
    \/ \E ok \in BOOLEAN :
          \/ UpdateEntryFind(r, ok) \/ UpdateEntryMood(r, ok)
          \/ UpdateEntrySave(r, ok) \/ UpdateEntryCommit(r, ok)
          \/ UpdateEntryRefetch(r, ok)
    \/ UpdateEntryReply(r)
    \/ UpdateEntryCatch(r)

DeleteEntry(r) ==
    \/ \E caller \in UserIds, id \in EntryIds : DeleteEntryFind(r, caller, id)
    \/ DeleteEntrySoftDelete(r)
    \/ DeleteEntryMood(r)
    \/ DeleteEntryReply(r)

CreateMoodBodies ==
    {[moodTypeId |-> "calm"],
     [moodTypeId |-> "calm", journalEntryId |-> 1],
     [moodTypeId |-> "gone", journalEntryId |-> 1],
     [journalEntryId |-> 1]}
CreateMood(r) ==
    \/ \E caller \in UserIds, body \in CreateMoodBodies :
          CreateMoodStart(r, caller, body)
    \/ CreateMoodFindEntry(r)
    \/ CreateMoodCreate(r)
    \/ CreateMoodLink(r)
    \/ CreateMoodRefetch(r)
    \/ CreateMoodReply(r)

ReadEntries(r) ==
    \/ \E caller \in UserIds, query \in Queries : GetEntriesFind(r, caller, query)
    \/ \E caller \in UserIds : SearchEntriesFind(r, caller)
    \/ \E caller \in UserIds : ExportEntriesFind(r, caller)
    \/ CountEntries(r)
    \/ ListReply(r)
    \/ \E caller \in UserIds, id \in EntryIds : GetEntryFind(r, caller, id)
    \/ GetEntryReply(r)

\* The diary of the demo user and of a registered one, one request at a time.
OtherUser == Persisted([id |-> 2, email |-> "a@x.com",
                        password |-> BcryptHash(OtherPassword)])
InitJournal ==
    /\ refreshSecretSet = FALSE
    /\ rowCap = MaxRows
    /\ diaryCap = [entries |-> MaxEntries, moods |-> MaxMoods]
    /\ Outside
    /\ now = 1
    /\ users = {DemoUser, OtherUser}
    /\ nextUser = 3
    /\ ledger = {}
    /\ nextRow = 1
    /\ reqs = [r \in Reqs |-> Idle]
    /\ issued = {}
    /\ mail = {}
    /\ nextReset = 1
    /\ seedPc = "idle"
    /\ entries = {}
    /\ moods = {}
    /\ nextEntry = 1
    /\ nextMood = 1
    /\ jreqs = [r \in Reqs |-> JIdle]
NextJournal ==
    \/ \E id \in EntryIds : restoreById(id)
    \/ \E r \in SeqReqs :
          \/ CreateEntry(r) \/ UpdateEntry(r) \/ DeleteEntry(r)
          \/ ReadEntries(r) \/ JFinish(r)
SpecJournal == InitJournal /\ [][NextJournal]_vars

\* The diary with the route POST /moods of the mood router that has it.
NextMoods ==
    \/ \E id \in EntryIds : restoreById(id)
    \/ \E r \in SeqReqs :
          \/ CreateEntry(r) \/ UpdateEntry(r) \/ DeleteEntry(r)
          \/ CreateMood(r) \/ JFinish(r)
SpecMoods == InitJournal /\ [][NextMoods]_vars

\* Requests on one entry in flight together: the diary of the demo user
\* after their one createEntry with a mood.
InitJournalRace ==
    /\ refreshSecretSet = FALSE
    /\ rowCap = MaxRows
    /\ diaryCap = [entries |-> MaxEntries, moods |-> MaxMoods]
    /\ Outside
    /\ now = 1
    /\ users = {DemoUser}
    /\ nextUser = 2
    /\ ledger = {}
    /\ nextRow = 1
    /\ reqs = [r \in Reqs |-> Idle]
    /\ issued = {}
    /\ mail = {}
    /\ nextReset = 1
    /\ seedPc = "idle"
    /\ entries = {[id |-> 1, title |-> "Monday", content |-> "Rain.",
                   category |-> "WORK", user |-> 1, mood |-> 1,
                   deletedAt |-> Null, createdAt |-> 1]}
    /\ moods = {[id |-> 1, moodType |-> "happy", user |-> 1,
                 intensity |-> DefaultIntensity, date |-> 1,
                 journalEntry |-> 1]}
    /\ nextEntry = 2
    /\ nextMood = 2
    /\ jreqs = [r \in Reqs |-> JIdle]
NextJournalRace ==
    \E r \in Reqs : UpdateEntry(r) \/ DeleteEntry(r) \/ JFinish(r)
SpecJournalRace == InitJournalRace /\ [][NextJournalRace]_vars

\* The statistics of a diary: the demo user writes entries with moods on
\* several days, deletes the first of them, which may be restored, and asks
\* for the statistics and the calendar.  The other user has written one
\* entry; the store's requests succeed.  "gone" is the id of no mood type.
StatBodies ==
    {[title |-> "Monday", content |-> "Rain.", category |-> "WORK",
      moodTypeId |-> "happy"],
     [title |-> "Monday", content |-> "Rain.", category |-> "WORK",
      moodTypeId |-> "calm"],
     [title |-> "Monday", content |-> "Rain.", category |-> "WORK",
      moodTypeId |-> "gone"]}
CalendarQueries == {<<>>, [month |-> "1"], [month |-> "13"]}
StatDeleteIds == {2}
DiaryTick ==
    /\ now < MaxStatTime
    /\ now' = now + 1
    /\ UNCHANGED <<users, nextUser, ledger, nextRow, reqs, issued, resets,
                   seedPc, config, journal>>
InitStats ==
    /\ refreshSecretSet = FALSE
    /\ rowCap = MaxRows
    /\ diaryCap = [entries |-> MaxStatEntries, moods |-> MaxStatEntries]
    /\ Outside
    /\ now = 0
    /\ users = {DemoUser, OtherUser}
    /\ nextUser = 3
    /\ ledger = {}
    /\ nextRow = 1
    /\ reqs = [r \in Reqs |-> Idle]
    /\ issued = {}
    /\ mail = {}
    /\ nextReset = 1
    /\ seedPc = "idle"
    /\ entries = {[id |-> 1, title |-> "Monday", content |-> "Rain.",
                   category |-> "WORK", user |-> 2, mood |-> 1,
                   deletedAt |-> Null, createdAt |-> 0]}
    /\ moods = {[id |-> 1, moodType |-> "happy", user |-> 2,
                 intensity |-> DefaultIntensity, date |-> 0,
                 journalEntry |-> 1]}
    /\ nextEntry = 2
    /\ nextMood = 2
    /\ jreqs = [r \in Reqs |-> JIdle]
MoodReads(r) ==
    \/ GetMoodStatsAggregate(r, 1)
    \/ GetMoodStatsReply(r)
    \/ GetMoodStatsByPeriodAggregate(r, 1)
    \/ GetMoodStatsByPeriodReply(r)
    \/ \E query \in CalendarQueries : GetMoodCalendarFind(r, 1, query)
    \/ GetMoodCalendarReply(r)
NextStats ==
    \/ DiaryTick
    \/ \E id \in StatDeleteIds : restoreById(id)
    \/ \E r \in SeqReqs :
          \/ \E body \in StatBodies : CreateEntryStart(r, 1, body)
          \/ CreateEntryInsert(r, TRUE) \/ CreateEntryMood(r, TRUE)
          \/ CreateEntryLink(r, TRUE) \/ CreateEntryCommit(r, TRUE)
          \/ CreateEntryRefetch(r, TRUE) \/ CreateEntryReply(r)
          \/ \E id \in StatDeleteIds : DeleteEntryFind(r, 1, id)
          \/ DeleteEntrySoftDelete(r) \/ DeleteEntryMood(r)
          \/ DeleteEntryReply(r)
          \/ MoodReads(r) \/ JFinish(r)
SpecStats == InitStats /\ [][NextStats]_vars

(* ------------------------------ claims -------------------------------- *)
\* the routes behind protect that the specifications exercise
ProtectedOps == {"me", "logout", "changePassword"}
\* the request was answered through next(new AppError(_, statusCode))
Refused(q, statusCode) ==
    q.pc = "done" /\ q.out = "error" /\ q.status = statusCode
RowWithId(rows, id) == \E row \in rows : row.id = id
IssuedRefresh == {RefreshOf(p) : p \in issued}

\* C1: refresh credentials are single-use in sequence.  A refresh that found
\* an unexpired row for rt1 whose owner exists succeeds (its insert is not
\* refused); the pair it returns carries a refresh credential other than rt1;
\* and when it answers, rt1 has no ledger row left, so that every later
\* refresh presenting rt1 is refused.
C1_SingleUseInSequence ==
    [][\A r \in Reqs :
        /\ (RefreshAfterDelete(r) /\ reqs[r].pc = "rf_deleted")
              => reqs'[r].pc = "rf_saved"
        /\ RefreshReply(r)
              => /\ RefreshOf(reqs[r].pair) # reqs[r].rec.token
                 /\ RowsByToken(reqs[r].rec.token) = {}]_vars

\* C2: refresh credentials are single-use under interleaving.  Of two
\* refresh requests in flight that looked up the same ledger row, at most one
\* gets as far as having its new row inserted, where the 200 with the new
\* pair is all that is left of the handler.
C2_SingleUseUnderInterleaving ==
    \A r1, r2 \in Reqs :
        (r1 # r2 /\ reqs[r1].pc = "rf_saved" /\ reqs[r2].pc = "rf_saved")
            => reqs[r1].rec # reqs[r2].rec

C4_PasswordChangeRevokes ==
    [][\A r \in Reqs :
        ChangePasswordReply(r)
            => \A row \in ledger' : row.user # reqs[r].user]_vars

\* C4, amended: no step of a change-password request touches the ledger, so
\* every row the user owned before a successful password change is still
\* there after it.
C4_PasswordChangeKeepsLedger ==
    [][\A r \in Reqs :
        (reqs[r].op = "changePassword" /\ reqs'[r] # reqs[r])
            => ledger' = ledger]_vars

\* the password is saved and a row of the user, for a credential that a
\* response handed out, is still in the ledger
C4_Witness ==
    \E r \in Reqs : \E row \in ledger :
        /\ reqs[r].pc = "cp_saved"
        /\ row.user = reqs[r].user
        /\ row.token \in IssuedRefresh

\* what protect requires of the credential before it looks the user up
GoodAccess(tok, t) ==
    tok # NoTok /\ tok.sig = "JWT_SECRET" /\ t < tok.exp /\ tok.type = "access"

\* C5: the access guard is a gate.  A request to a protected route gets past
\* the checks of the credential exactly when it carries one with a valid
\* signature, unexpired and of type access, and then the user looked up is
\* the one it names, if the store holds it; every other request is refused
\* with 401 there.  After the lookup the handler runs with that user when it
\* was found; when it was not, the request is refused with 401 and neither
\* the ledger nor the users change.
C5_AccessGuardGate ==
    [][\A r \in Reqs :
        /\ (reqs[r].pc = "idle" /\ reqs'[r].op \in ProtectedOps)
              => IF GoodAccess(reqs'[r].tok, now)
                 THEN /\ reqs'[r].pc = "protect"
                      /\ reqs'[r].user = IF reqs'[r].tok.userId \in UserIds
                                         THEN reqs'[r].tok.userId ELSE 0
                 ELSE Refused(reqs'[r], 401)
        /\ (reqs[r].pc = "protect" /\ reqs'[r] # reqs[r])
              => IF reqs[r].user = 0
                 THEN /\ Refused(reqs'[r], 401)
                      /\ ledger' = ledger /\ users' = users
                 ELSE /\ reqs'[r].out # "error"
                      /\ reqs[r].user = reqs[r].tok.userId]_vars

\* the handler of GET /auth/me ran for a credential that a response handed out
C5_Witness ==
    \E r \in Reqs : \E p \in issued :
        /\ reqs[r].op = "me" /\ reqs[r].pc = "done"
        /\ reqs[r].out = "json" /\ reqs[r].status = 200
        /\ reqs[r].tok = AccessOf(p)

\* C6: an access credential handed out at second t with validity AccessSecs,
\* for a user that exists, gets past the guard's checks at every second
\* before t + AccessSecs and is refused with the 401 of an expired token from
\* t + AccessSecs on, whatever logout, refresh and resetPassword requests ran
\* or are running.
C6_ValidUntilExpiry ==
    [][\A r \in Reqs : \A p \in issued :
        (/\ reqs[r].pc = "idle" /\ reqs'[r].op \in ProtectedOps
         /\ reqs'[r].tok = AccessOf(p) /\ p.userId \in UserIds)
            => IF now < p.iat + AccessSecs
               THEN reqs'[r].pc = "protect" /\ reqs'[r].user = p.userId
               ELSE /\ Refused(reqs'[r], 401)
                    /\ reqs'[r].msg = "Your token has expired! Please log in again."]_vars

\* an access credential is getting past the guard although the ledger row of
\* the refresh credential issued with it is gone
C6_Witness ==
    \E r \in Reqs : \E p \in issued :
        /\ reqs[r].pc = "protect" /\ reqs[r].user = p.userId
        /\ reqs[r].tok = AccessOf(p)
        /\ RowsByToken(RefreshOf(p)) = {}

\* C7: credential types are not interchangeable.  A refresh credential in the
\* Authorization header is refused by the guard with 401; an access
\* credential sent as refreshToken to /auth/refresh matches no ledger row and
\* is refused with 401, and neither step changes the ledger or hands out a
\* credential.
C7_TypesNotInterchangeable ==
    [][\A r \in Reqs :
        /\ (/\ reqs[r].pc = "idle" /\ reqs'[r].op \in ProtectedOps
            /\ reqs'[r].tok.type = "refresh")
              => Refused(reqs'[r], 401) /\ ledger' = ledger /\ issued' = issued
        /\ (/\ reqs[r].pc = "idle" /\ reqs'[r].op = "refresh"
            /\ reqs'[r].rt.type = "access")
              => /\ reqs'[r].pc = "rf_found" /\ reqs'[r].rec = NoRow
                 /\ ledger' = ledger /\ issued' = issued
        /\ (/\ reqs[r].pc = "rf_found" /\ reqs[r].rt.type = "access"
            /\ reqs'[r] # reqs[r])
              => Refused(reqs'[r], 401) /\ ledger' = ledger /\ issued' = issued]_vars

\* a refresh credential that a response handed out, signed with the secret
\* of the access credentials, was refused by the guard for its type
C7_Witness ==
    \E r \in Reqs :
        /\ Refused(reqs[r], 401)
        /\ reqs[r].tok \in IssuedRefresh
        /\ reqs[r].msg = "Invalid token type provided."

\* C8: a failed refresh leaves no offending row behind.  A refresh that found
\* no row is refused with 401 and the ledger is unchanged; one that found a
\* row whose expiresAt is in the past, or whose user the store no longer
\* holds, deletes that row and is then refused with 401, the row still gone.
C8_FailedRefreshCleansUp ==
    [][\A r \in Reqs :
        /\ (reqs[r].pc = "rf_found" /\ reqs'[r] # reqs[r])
              => IF reqs[r].rec = NoRow
                 THEN Refused(reqs'[r], 401) /\ ledger' = ledger
                 ELSE IF reqs[r].rec.expiresAt < now
                 THEN /\ reqs'[r].pc = "rf_expired"
                      /\ ~RowWithId(ledger', reqs[r].rec.id)
                 ELSE /\ reqs'[r].pc = "rf_user"
                      /\ (reqs'[r].user = 0) = (reqs[r].rec.user \notin UserIds)
        /\ (reqs[r].pc = "rf_user" /\ reqs[r].user = 0 /\ reqs'[r] # reqs[r])
              => /\ reqs'[r].pc = "rf_gone"
                 /\ ~RowWithId(ledger', reqs[r].rec.id)
        /\ (reqs[r].pc \in {"rf_expired", "rf_gone"} /\ reqs'[r] # reqs[r])
              => /\ Refused(reqs'[r], 401)
                 /\ ~RowWithId(ledger', reqs[r].rec.id)]_vars

\* a refresh has deleted the expired row it found and is about to be refused
C8_Witness ==
    \E r \in Reqs :
        /\ reqs[r].pc = "rf_expired"
        /\ reqs[r].rec.expiresAt < now
        /\ ~RowWithId(ledger, reqs[r].rec.id)

\* the answer of logout
LogoutSuccess(q) ==
    /\ q.pc = "done" /\ q.out = "json"
    /\ q.status = 200 /\ q.msg = "Logout successful"

\* C9: logout, once the guard has let the request through, always succeeds
\* and is idempotent.  Its step removes exactly the rows whose token is the
\* refreshToken of the body, so that none is left with it and no row with
\* another token string goes; with no refreshToken, or one that has no row
\* (a second logout), the ledger is unchanged; and the answer is the same
\* 200 in every case.
C9_LogoutIdempotent ==
    [][\A r \in Reqs :
        /\ (/\ reqs[r].pc = "protect" /\ reqs[r].op = "logout"
            /\ reqs[r].user # 0 /\ reqs'[r] # reqs[r])
              => /\ ledger' = {row \in ledger : row.token # reqs[r].rt}
                 /\ (RowsByToken(reqs[r].rt) = {} => ledger' = ledger)
                 /\ \/ LogoutSuccess(reqs'[r])
                    \/ reqs'[r].pc = "lo_deleted"
        /\ (reqs[r].pc = "lo_deleted" /\ reqs'[r] # reqs[r])
              => LogoutSuccess(reqs'[r]) /\ ledger' = ledger]_vars

\* a logout has removed the row of the credential in its body while the row
\* of another session is still there
C9_Witness ==
    \E r \in Reqs :
        /\ reqs[r].pc = "lo_deleted"
        /\ reqs[r].rt \in IssuedRefresh
        /\ RowsByToken(reqs[r].rt) = {}
        /\ ledger # {}

\* the unique index on token
UniqueTokens == \A a, b \in ledger : a.token = b.token => a = b

\* C10: in every reachable state no two ledger rows have the same token
\* string, and whenever a success response returns a refresh credential,
\* that credential has exactly one ledger row.
C10_LedgerRowPerCredential ==
    /\ []UniqueTokens
    /\ [][\A r \in Reqs :
            (SendTokenReply(r) \/ RefreshReply(r))
                => Cardinality(RowsByToken(RefreshOf(reqs[r].pair))) = 1]_vars

\* the request r presents, with a valid password and its confirmation, the
\* reset token of the mail m, not yet expired, and m's user is in the store
LiveReset(r, m) ==
    /\ reqs[r].op = "resetPassword" /\ reqs[r].pc = "rs_found"
    /\ reqs[r].raw = m.raw /\ m.expires > now /\ m.to \in UserIds
    /\ reqs[r].pw # NoVal /\ reqs[r].pw = reqs[r].pw2
    /\ PasswordLen(reqs[r].pw) >= MinPasswordLen

\* C11: resetPassword accepts exactly the live reset tokens.  A reset that
\* presents a delivered token before its expiry, with matching passwords,
\* saves the new password of the user the token was mailed to; a reset whose
\* token matched no user (none was drawn with it, or its expiry has elapsed)
\* is refused with 400 and changes neither the users nor the ledger.
C11_ResetAcceptsLiveTokens ==
    [][\A r \in Reqs :
        /\ \A m \in mail :
              (ResetStep(r) /\ LiveReset(r, m))
                  => /\ reqs'[r].pc = "rs_saved"
                     /\ \E u \in users' : /\ u.id = m.to
                                          /\ u.password = BcryptHash(reqs[r].pw)
        /\ (/\ ResetStep(r) /\ reqs[r].pc = "rs_found"
            /\ \A m \in mail : reqs[r].raw # m.raw \/ m.expires <= now)
              => /\ Refused(reqs'[r], 400)
                 /\ users' = users /\ ledger' = ledger]_vars

NoAccountAnswer(q) ==
    /\ q.pc = "done" /\ q.out = "json" /\ q.status = 200
    /\ q.msg = "If the email exists, a password reset token has been sent."

\* C13: forgotPassword gives no signal of whether the account exists.  Every
\* success response of forgotPassword, the one after a delivered reset mail
\* included, has the status and the body of the response for an address
\* without an account.
C13_NoEnumerationSignal ==
    [][\A r \in Reqs :
        (/\ reqs[r].op = "forgotPassword" /\ reqs[r].pc # "done"
         /\ reqs'[r].pc = "done" /\ reqs'[r].out = "json")
            => NoAccountAnswer(reqs'[r])]_vars

\* the raw reset tokens that a mail delivered
Mailed == {m.raw : m \in mail}
HasNoResetPaths(docs, id) ==
    \A u \in docs : u.id = id => ResetPaths \cap DOMAIN u = {}

\* C14: a failed delivery is rolled back.  After sendEmail threw, the save
\* of the catch block leaves the user record without reset-token hash and
\* expiry, the request is then refused with 500 and nothing is mailed; and a
\* resetPassword presenting a raw token that no mail delivered is refused
\* with 400 and changes neither the users nor the ledger.
C14_FailedDeliveryRolledBack ==
    [][\A r \in Reqs :
        /\ (reqs[r].pc = "fp_mailfail" /\ reqs'[r] # reqs[r])
              => /\ reqs'[r].pc = "fp_rolled"
                 /\ HasNoResetPaths(users', reqs[r].user)
                 /\ reqs[r].raw \notin Mailed
        /\ (reqs[r].pc = "fp_rolled" /\ reqs'[r] # reqs[r])
              => /\ Refused(reqs'[r], 500)
                 /\ HasNoResetPaths(users', reqs[r].user)
                 /\ mail' = mail
        /\ (/\ ResetStep(r) /\ reqs[r].pc = "rs_found"
            /\ reqs[r].raw \notin Mailed)
              => /\ Refused(reqs'[r], 400)
                 /\ users' = users /\ ledger' = ledger]_vars

\* a resetPassword presenting the token of a forgotPassword whose mail was
\* not delivered has found no user
C14_Witness ==
    \E r \in Reqs :
        /\ reqs[r].op = "resetPassword" /\ reqs[r].pc = "rs_found"
        /\ reqs[r].raw \in 1 .. (nextReset - 1)
        /\ reqs[r].raw \notin Mailed
        /\ reqs[r].user = 0 /\ users # {}

\* the handlers that write inside a transaction
TxnOps == {"createEntry", "updateEntry"}
\* the step of request r that hands its error over, after its transaction
\* started
ErrorAfterTxn(r) ==
    /\ jreqs[r].op \in TxnOps
    /\ jreqs[r].pc \in {"caught", "aborted"}
    /\ jreqs'[r].pc = "done" /\ jreqs'[r].out = "error"

\* C15: the paired entry+mood writes of createEntry and updateEntry are
\* all-or-nothing.  No step of such a request other than its commit changes
\* a JournalEntry or Mood row; and a request that fails after its
\* transaction started has not committed (so none of its rows is created,
\* changed or deleted) and hands over the error that made it fail.
C15_PairedWritesAllOrNothing ==
    [][\A r \in Reqs :
        /\ (/\ jreqs[r].op \in TxnOps /\ jreqs'[r] # jreqs[r]
            /\ ~(jreqs[r].txn.state = "active"
                    /\ jreqs'[r].txn.state = "committed"))
              => entries' = entries /\ moods' = moods
        /\ ErrorAfterTxn(r)
              => /\ jreqs[r].txn.state # "committed"
                 /\ DocById(entries', jreqs[r].doc.id) \subseteq
                        {e \in entries' : e.id = jreqs[r].id}
                 /\ jreqs'[r].status = jreqs[r].status
                 /\ jreqs'[r].msg = jreqs[r].msg]_vars

\* the moods of a store that point at entry id
MoodsOfEntry(moodDocs, id) == {m \in moodDocs : m.journalEntry = id}

\* C16: createEntry with a moodTypeId creates exactly one Mood row and links
\* it both ways: its commit adds one JournalEntry and one Mood, and when it
\* answers 201 the entry's mood is that Mood, the Mood's journalEntry is
\* that entry, and both belong to the caller; without a moodTypeId the
\* commit adds no Mood and the entry's mood is null.
C16_CreateLinksOneMood ==
    [][\A r \in Reqs :
        LET q == jreqs[r]
            withMood == Truthy(Field(q.body, "moodTypeId"))
        IN  /\ (/\ q.op = "createEntry" /\ q.txn.state = "active"
                /\ jreqs'[r].txn.state = "committed")
                  => /\ Cardinality(entries' \ entries) = 1
                     /\ entries \subseteq entries' /\ moods \subseteq moods'
                     /\ Cardinality(moods' \ moods) = IF withMood THEN 1 ELSE 0
            /\ (/\ q.op = "createEntry" /\ q.pc = "fetched"
                /\ jreqs'[r].pc = "done" /\ jreqs'[r].status = 201)
                  => \E e \in entries :
                        /\ e.id = q.doc.id /\ e.user = q.caller
                        /\ IF withMood
                               THEN \E m \in moods :
                                       /\ MoodsOfEntry(moods, e.id) = {m}
                                       /\ e.mood = m.id /\ m.user = q.caller
                                       /\ jreqs'[r].doc.mood = m.id
                               ELSE /\ MoodsOfEntry(moods, e.id) = {}
                                    /\ e.mood = Null
                                    /\ jreqs'[r].doc.mood = Null]_vars
\* a createEntry with a moodTypeId has answered 201 with a linked entry
C16_Witness ==
    \E r \in Reqs :
        /\ jreqs[r].op = "createEntry" /\ jreqs[r].pc = "done"
        /\ jreqs[r].status = 201 /\ jreqs[r].doc.mood # Null
        /\ MoodsOfEntry(moods, jreqs[r].doc.id) # {}

\* C17: deleteEntry on an entry that has a linked mood soft-deletes the entry
\* and removes the linked Mood row: its softDelete step stamps the entry,
\* and once it has answered 204 no Mood row whose journalEntry is that entry
\* remains.
C17_DeleteRemovesLinkedMood ==
    [][\A r \in Reqs :
        LET q == jreqs[r]
        IN  /\ (/\ q.op = "deleteEntry" /\ q.pc = "de_found"
                /\ jreqs'[r].pc = "de_deleted")
                  => \A e \in entries' : e.id = q.doc.id => e.deletedAt # Null
            /\ (/\ q.op = "deleteEntry" /\ q.doc.mood # Null
                /\ q.pc # "done" /\ jreqs'[r].pc = "done"
                /\ jreqs'[r].status = 204)
                  => MoodsOfEntry(moods', q.doc.id) = {}]_vars

Deleted(docs) == {e \in docs : e.deletedAt # Null}
ListOps == {"getEntries", "searchEntries", "exportEntries"}

\* C18: default reads never return a soft-deleted entry.  The find of GET
\* /entries, GET /search and GET /export/entries returns no entry that is
\* soft-deleted, and its answer returns what it found; GET /entries/:id of a
\* soft-deleted entry finds nothing and answers 404; and no operation other
\* than restoreById makes a soft-deleted entry live again.
C18_DefaultReadsHideDeleted ==
    [][\A r \in Reqs :
        LET q == jreqs[r]
            p == jreqs'[r]
        IN  /\ (q.pc = "idle" /\ p.op \in ListOps)
                  => p.found \cap Deleted(entries) = {}
            /\ (q.op \in ListOps /\ q.pc # "done" /\ p.pc = "done")
                  => p.status = 200 /\ p.found = q.found
            /\ (/\ q.pc = "idle" /\ p.op = "getEntry"
                /\ \E e \in Deleted(entries) : e.id = p.id)
                  => p.doc = NoEntry
            /\ (q.op = "getEntry" /\ q.pc = "g_found" /\ p.pc = "done")
                  => IF q.doc = NoEntry
                         THEN p.out = "error" /\ p.status = 404
                         ELSE p.status = 200 /\ p.doc = q.doc
            /\ p # q
                  => \A e \in Deleted(entries) :
                         \E d \in Deleted(entries') : d.id = e.id]_vars
\* GET /entries of a user with a soft-deleted entry, and no other, has
\* answered with no entry
C18_Witness ==
    \E r \in Reqs :
        /\ jreqs[r].op = "getEntries" /\ jreqs[r].pc = "done"
        /\ jreqs[r].status = 200 /\ ~Has(jreqs[r].query, "withDeleted")
        /\ jreqs[r].found = {}
        /\ \E e \in Deleted(entries) : e.user = jreqs[r].caller

\* C19: a listing that asks for deleted entries returns the caller's
\* soft-deleted entries.  For a user whose one entry is soft-deleted, the find
\* of GET /entries returns no entry and the find of GET /entries?withDeleted
\* returns that one entry.
C19_WithDeletedListsDeleted ==
    [][\A r \in Reqs :
        LET p == jreqs'[r]
            own == {e \in entries : e.user = p.caller}
        IN  (/\ jreqs[r].pc = "idle" /\ p.op = "getEntries"
             /\ Cardinality(own) = 1 /\ own \subseteq Deleted(entries))
                => IF Has(p.query, "withDeleted")
                       THEN p.found = own
                       ELSE p.found = {}]_vars

SameEntry(a, b) ==
    /\ a.id = b.id /\ a.title = b.title /\ a.content = b.content
    /\ a.category = b.category /\ a.user = b.user

\* C20: restore undoes soft delete.  The soft delete of an entry keeps its
\* title, content, category and owner, and so does every step while it is
\* soft-deleted; restoreById of a soft-deleted entry sets its deletedAt back
\* to null, keeps those fields, and the entry is in the default listing of
\* its owner again.
C20_RestoreUndoesSoftDelete ==
    [][/\ \A e \in entries : \A d \in entries' :
             (d.id = e.id /\ (e.deletedAt # Null \/ d.deletedAt # Null))
                 => SameEntry(e, d)
       /\ \A e \in Deleted(entries) :
             restoreById(e.id)
                 => \E d \in entries' :
                       /\ SameEntry(e, d) /\ d.deletedAt = Null
                       /\ d \in Find(entries', [user |-> e.user], NoOptions)]_vars
\* an entry that deleteEntry soft-deleted, with its mood, is live again and
\* GET /entries of its owner has returned it
C20_Witness ==
    \E r \in Reqs : \E e \in entries :
        /\ e.deletedAt = Null
        /\ e.mood # Null /\ DocById(moods, e.mood) = {}
        /\ jreqs[r].op = "getEntries" /\ jreqs[r].pc = "done"
        /\ e \in jreqs[r].found

\* the answer of GET, PATCH and DELETE /entries/:id for an id that names no
\* entry of the caller
NotFoundAnswer(q) ==
    /\ q.out = "error" /\ q.status = 404 /\ q.doc = NoEntry
    /\ q.msg = "No journal entry found with that ID for this user"
ByIdOps == {"getEntry", "updateEntry", "deleteEntry"}
OwnEntry(q) == \E e \in entries : e.id = q.id /\ e.user = q.caller
ForeignEntry(q) == \E e \in entries : e.id = q.id /\ e.user # q.caller

\* C21: ownership isolation.  getEntry, updateEntry and deleteEntry with the
\* id of another user's entry change no entry and no mood, and answer 404
\* with the message they answer for an id that names no entry at all (a
\* failure of the store during updateEntry's find is the one other answer,
\* a 500, for both); the entry that getEntry returns, and every entry that
\* getEntries, searchEntries and the export return, is the caller's, also
\* when the query string names another user.
C21_OwnershipIsolation ==
    [][\A r \in Reqs :
        LET q == jreqs[r]
            p == jreqs'[r]
        IN  /\ (p.op \in ByIdOps /\ p # q /\ ForeignEntry(p))
                  => entries' = entries /\ moods' = moods
            /\ (q.op \in ByIdOps /\ q.pc # "done" /\ p.pc = "done"
                    /\ ~OwnEntry(q))
                  => \/ NotFoundAnswer(p)
                     \/ /\ p.op = "updateEntry" /\ q.status = 500
                        /\ p.out = "error" /\ p.status = 500
                        /\ p.doc = NoEntry
            /\ (p.op = "getEntry" /\ p.doc # NoEntry)
                  => p.doc.user = p.caller
            /\ p.op \in ListOps
                  => \A e \in p.found : e.user = p.caller]_vars
\* PATCH /entries/:id with the id of another user's live entry has been
\* answered 404
C21_Witness ==
    \E r \in Reqs :
        /\ jreqs[r].op = "updateEntry" /\ NotFoundAnswer(jreqs[r])
        /\ \E e \in entries :
              /\ e.id = jreqs[r].id /\ e.user # jreqs[r].caller
              /\ e.deletedAt = Null

StatsOps == {"getMoodStats", "getMoodStatsByPeriod"}
\* the entries of a user, created from the day one month before the day of
\* t to the day of t, whose mood is a Mood row whose moodType is ty
ResolvedAs(caller, ty, t) ==
    {e \in entries :
        /\ e.user = caller /\ e.mood # Null
        /\ format(e.createdAt) >= format(t) - DaysPerMonth
        /\ format(e.createdAt) <= format(t)
        /\ \E m \in moods : m.id = e.mood /\ m.moodType = ty}
\* what an answer of getMoodStats reports as most frequent
MostFrequent(data) ==
    IF Has(data, "mostFrequentMoods")
        THEN {data.mostFrequentMoods[i] : i \in DOMAIN data.mostFrequentMoods}
        ELSE {data.mostFrequentMood} \ {JsNull}

\* C22: getMoodStats returns one count per mood type that has at least one
\* resolvable entry of the caller in the window, in an order of
\* non-increasing count, and reports as most frequent exactly the mood types
\* whose count is the greatest: all that tie, none when there is no count.
C22_StatsCountsAndTies ==
    [][\A r \in Reqs :
        LET q == jreqs[r]
            p == jreqs'[r]
            stats == p.data.moodCounts
            counted == {ty \in moodTypes : ResolvedAs(p.caller, ty, now) # {}}
        IN  /\ (q.pc = "idle" /\ p.op \in StatsOps)
                  => /\ Len(stats) = Cardinality(counted)
                     /\ {stats[i] : i \in DOMAIN stats} =
                            {[moodType |-> ty,
                              count |-> Cardinality(ResolvedAs(p.caller, ty, now))] :
                             ty \in counted}
                     /\ \A i, j \in DOMAIN stats :
                            i < j => stats[i].count >= stats[j].count
            /\ (q.op \in StatsOps /\ q.pc = "ms_stats" /\ p.pc = "done")
                  => /\ p.status = 200
                     /\ stats = q.data.moodCounts
                     /\ MostFrequent(p.data) =
                            {stats[i].moodType : i \in
                                {j \in DOMAIN stats :
                                    \A k \in DOMAIN stats :
                                        stats[j].count >= stats[k].count}}]_vars

\* the entries of a user with a mood reference that does not resolve: no
\* Mood row, or a Mood row whose moodType is no row of the catalog
Unresolved(caller) ==
    {e \in entries :
        /\ e.user = caller /\ e.mood # Null
        /\ ~\E m \in moods : m.id = e.mood /\ m.moodType \in moodTypes}
\* the moods that a calendar lists
Listed(cal) == UNION {{cal[k][i].id : i \in DOMAIN cal[k]} : k \in DOMAIN cal}
MoodReadOps == StatsOps \cup {"getMoodCalendar"}

\* C23: dangling references are skipped, not failed on.  Every count of
\* getMoodStats is the count of a mood type of the catalog and counts only
\* entries whose mood resolves to a Mood row of that type; an entry whose
\* mood or mood type does not resolve is populated as such by
\* getMoodCalendar's find and listed under no day; and both endpoints answer
\* 200.
C23_DanglingReferencesSkipped ==
    [][\A r \in Reqs :
        LET q == jreqs[r]
            p == jreqs'[r]
            stats == p.data.moodCounts
            es == q.data.entries
        IN  /\ (q.pc = "idle" /\ p.op \in StatsOps)
                  => \A i \in DOMAIN stats :
                        /\ stats[i].moodType \in moodTypes
                        /\ stats[i].count = Cardinality(
                               ResolvedAs(p.caller, stats[i].moodType, now))
            /\ (q.pc = "idle" /\ p.op = "getMoodCalendar" /\ p.pc = "mc_found")
                  => \A i \in DOMAIN p.data.entries :
                        (\E e \in Unresolved(p.caller) :
                            e.id = p.data.entries[i].id)
                            => \/ p.data.entries[i].mood = NoMood
                               \/ p.data.entries[i].mood.moodType = JsNull
            /\ (q.op = "getMoodCalendar" /\ q.pc = "mc_found" /\ p.pc = "done")
                  => /\ Null \notin Listed(p.data.calendarData)
                     /\ \A i \in DOMAIN es :
                           es[i].mood.moodType = JsNull
                               => es[i].mood.id \notin Listed(p.data.calendarData)
            /\ (q.op \in MoodReadOps /\ q.pc \in {"ms_stats", "mc_found"}
                    /\ p.pc = "done")
                  => p.out = "json" /\ p.status = 200]_vars
\* getMoodStats has answered 200 with no count to a user who has, in the
\* window, an entry whose Mood row is gone and an entry whose Mood names no
\* mood type
C23_Witness ==
    \E r \in Reqs : \E e, d \in Unresolved(jreqs[r].caller) :
        /\ jreqs[r].op = "getMoodStats" /\ jreqs[r].pc = "done"
        /\ jreqs[r].status = 200 /\ jreqs[r].data.moodCounts = <<>>
        /\ DocById(moods, e.mood) = {} /\ DocById(moods, d.mood) # {}
        /\ format(e.createdAt) >= format(now) - DaysPerMonth
        /\ format(d.createdAt) >= format(now) - DaysPerMonth

\* C24: the calendar is keyed by the day the entry was created.  The find of
\* getMoodCalendar returns each live entry of the caller that was created in
\* the month and has a mood, once; the answer lists the mood of each of them
\* whose mood and mood type resolved once, under the day of the entry's
\* createdAt, so that entries of one day share a key.
C24_CalendarKeyedByCreationDay ==
    [][\A r \in Reqs :
        LET q == jreqs[r]
            p == jreqs'[r]
            inMonth == {e \in entries :
                           /\ e.user = p.caller /\ e.deletedAt = Null
                           /\ e.mood # Null
                           /\ (format(e.createdAt) \div DaysPerMonth) + 1
                                  = p.data.month}
            es == q.data.entries
            cal == p.data.calendarData
        IN  /\ (q.pc = "idle" /\ p.op = "getMoodCalendar" /\ p.pc = "mc_found")
                  => /\ Len(p.data.entries) = Cardinality(inMonth)
                     /\ \A e \in inMonth : \E i \in DOMAIN p.data.entries :
                           /\ p.data.entries[i].id = e.id
                           /\ p.data.entries[i].createdAt = e.createdAt
                           /\ p.data.entries[i].mood.id =
                                  IF DocById(moods, e.mood) = {} THEN Null
                                  ELSE e.mood
            /\ (q.op = "getMoodCalendar" /\ q.pc = "mc_found" /\ p.pc = "done")
                  => \A i \in DOMAIN es :
                        (es[i].mood # NoMood /\ es[i].mood.moodType # JsNull)
                            => /\ Cardinality(
                                    {kj \in (DOMAIN cal) \X (1 .. MaxStatEntries) :
                                        /\ kj[2] \in DOMAIN cal[kj[1]]
                                        /\ cal[kj[1]][kj[2]].id = es[i].mood.id})
                                    = 1
                               /\ format(es[i].createdAt) \in DOMAIN cal
                               /\ \E j \in DOMAIN cal[format(es[i].createdAt)] :
                                     cal[format(es[i].createdAt)][j].id
                                         = es[i].mood.id]_vars
\* a calendar has been answered with two moods under one day, of entries
\* created at different instants of that day, one of them with a mood dated
\* on another day
C24_Witness ==
    \E r \in Reqs : \E e, d \in entries : \E m \in moods :
        /\ jreqs[r].op = "getMoodCalendar" /\ jreqs[r].pc = "done"
        /\ jreqs[r].status = 200
        /\ e.createdAt # d.createdAt /\ format(e.createdAt) = format(d.createdAt)
        /\ m.id = e.mood /\ format(m.date) # format(e.createdAt)
        /\ format(e.createdAt) \in DOMAIN jreqs[r].data.calendarData
        /\ {e.mood, d.mood} = {jreqs[r].data.calendarData[format(e.createdAt)][i].id :
                                   i \in DOMAIN jreqs[r].data.calendarData[
                                                    format(e.createdAt)]}

\* C25: the link of a live entry resolves.  In every reachable state each
\* entry that is not soft-deleted and whose mood is not null names a Mood row
\* of the store whose journalEntry is that entry.
C25_LiveLinkResolves ==
    \A e \in entries :
        (e.deletedAt = Null /\ e.mood # Null)
            => \E m \in moods : m.id = e.mood /\ m.journalEntry = e.id

\* C26: an entry owns at most one Mood.  In every reachable state at most
\* one Mood row has a given entry as its journalEntry.
C26_AtMostOneMoodPerEntry ==
    \A e \in entries : Cardinality(MoodsOfEntry(moods, e.id)) <= 1

MoodIds(moodDocs) == {m.id : m \in moodDocs}

\* C27: what updateEntry does to the linked mood.  The commit of an
\* updateEntry with a moodTypeId, on an entry whose mood is a Mood row,
\* changes that row in place (its moodType is the one sent) and creates none;
\* with a moodTypeId, on an entry without a Mood row, it adds one Mood row of
\* that type whose journalEntry is the entry and links the entry to it; with
\* moodTypeId null, on an entry whose mood is a Mood row, it deletes that row
\* and sets entry.mood to null; without moodTypeId it changes no Mood row and
\* no link.  No other step of an updateEntry changes a Mood row or an entry.
C27_UpdateEntryMoodEffect ==
    [][\A r \in Reqs :
        LET q == jreqs[r]
            p == jreqs'[r]
            e == CHOOSE d \in entries : d.id = q.id
            after == CHOOSE d \in entries' : d.id = q.id
            linked == DocById(moods, e.mood)
            moodTypeId == Field(q.body, "moodTypeId")
        IN  IF q.op = "updateEntry" /\ q.pc = "ue_saved" /\ p.pc = "committed"
            THEN /\ (Truthy(moodTypeId) /\ linked # {})
                      => /\ MoodIds(moods') = MoodIds(moods)
                         /\ moods' \ DocById(moods', e.mood) = moods \ linked
                         /\ \E m \in DocById(moods', e.mood) :
                               m.moodType = moodTypeId /\ m.journalEntry = e.id
                         /\ after.mood = e.mood
                 /\ (Truthy(moodTypeId) /\ linked = {})
                      => \E m \in moods' :
                            /\ m.id \notin MoodIds(moods)
                            /\ moods' = moods \cup {m}
                            /\ m.moodType = moodTypeId /\ m.journalEntry = e.id
                            /\ after.mood = m.id
                 /\ (moodTypeId = JsNull /\ linked # {})
                      => moods' = moods \ linked /\ after.mood = Null
                 /\ ~Has(q.body, "moodTypeId")
                      => moods' = moods /\ after.mood = e.mood
            ELSE (p # q /\ "updateEntry" \in {q.op, p.op})
                      => entries' = entries /\ moods' = moods]_vars
\* an updateEntry with a moodTypeId has committed without creating a Mood:
\* the entry's Mood row, which was there before, is of the type sent
C27_Witness ==
    \E r \in Reqs : \E m \in moods :
        /\ jreqs[r].op = "updateEntry" /\ jreqs[r].pc = "committed"
        /\ Truthy(Field(jreqs[r].body, "moodTypeId"))
        /\ jreqs[r].mood = Null
        /\ m.id = jreqs[r].doc.mood /\ m.moodType = jreqs[r].body.moodTypeId
        /\ m.journalEntry = jreqs[r].id

\* C28: a reset forces re-authentication also when a refresh runs with it.
\* When a reset that presents a live token of user u is answered, and the
\* other request is a refresh that has rotated a credential of u, the reset
\* has issued a pair and u's only ledger row is the row of that pair; and
\* when a refresh is answered after a reset has issued a pair to u, u's only
\* ledger row is still the row of the reset's pair.
C28_ResetWinsOverRefresh ==
    [][\A r, o \in Reqs : \A m \in mail :
        LET q == reqs[r]
            p == reqs'[r]
        IN  /\ (/\ ResetStep(r) /\ LiveReset(r, m) /\ p.pc = "done"
                /\ reqs[o].op = "refresh" /\ reqs[o].pc = "done"
                /\ reqs[o].out = "json")
                  => /\ p.out = "json"
                     /\ {row.token : row \in {w \in ledger' : w.user = m.to}}
                            = {RefreshOf(p.pair)}
            /\ (/\ q.op = "refresh" /\ q.pc # "done" /\ p.pc = "done"
                /\ reqs[o].op = "resetPassword" /\ reqs[o].pc = "done"
                /\ reqs[o].out = "json")
                  => {row.token : row \in {w \in ledger' : w.user = m.to}}
                         = {RefreshOf(reqs[o].pair)}]_vars

\* C29: when the calls of fetchAuthenticated that are in flight together have
\* each received a 401 while localStorage held a refresh token that the
\* server accepted, then once all of them have finished localStorage holds
\* an access token signed by the server and a refresh token that
\* exports.refresh accepts: no call has cleared what another call's
\* successful refresh stored.
Refreshing(c) == calls[c].rt # NoTok /\ calls[c].live
C29_SessionSurvivesConcurrent401s ==
    (\A c \in Reqs : calls[c].pc = "done" /\ Refreshing(c))
        => /\ Accepts(localStorage.refreshToken)
           /\ localStorage.accessToken.type = "access"
           /\ JwtVerifyIgnoreExpiration(localStorage.accessToken,
                                        "JWT_SECRET", now) = "ok"

\* C30: under every NODE_ENV, an error that a handler hands to next() leads
\* to exactly one response: the global error handler writes one, and never
\* a second.
C30_EveryErrorAnsweredOnce ==
    \A r \in Reqs : (reqs[r].out = "error") ~> (res[r].sent = 1)
====
